---- MODULE Spec2Model ----
(***************************************************************************)
(* A model of the library-reconciliation engine of crate.                  *)
(*                                                                         *)
(* Scanner part: the Scanner class of the scanner module (startScan,       *)
(* requestCancel, runScan and the helpers runScan calls), the scan request *)
(* handlers of the HTTP layer that drive it, and the tables they write.    *)
(*                                                                         *)
(* Scheduling.  The service is one Node.js event loop.  A request handler  *)
(* is a macrotask: it runs only when no JavaScript is on the stack and the *)
(* microtask queue is empty.  startScan defers runScan with setImmediate.  *)
(* runScan is an async function whose only await is applied to the plain   *)
(* object buildTrackMetadata returns, and every file-system and SQLite     *)
(* call it makes is synchronous; so its continuation after each await is a *)
(* microtask, which the runtime runs before it returns to the event loop.  *)
(* pc records where runScan stands; pc = "idle" is the only position in    *)
(* which the event loop can dispatch a handler or the next setImmediate    *)
(* callback.                                                               *)
(*                                                                         *)
(* Abstractions.  Strings are sequences of one-character strings.  A time  *)
(* stamp (an ISO string of millisecond resolution, compared as a string)   *)
(* is a natural number.  sha1 is taken to be injective, so a virtual album *)
(* path is the pair of its artist directory and the hashed label.  An      *)
(* album row's id is identified with its unique path (ids are              *)
(* AUTOINCREMENT and never reused), a track row is keyed by its unique     *)
(* path.  Columns no property reads (slug, firstSeen, formatsJson,         *)
(* lastFileMtime, currentPath, finishedAt) are left out.                   *)
(*                                                                         *)
(* Metadata client part: scheduleRequest of the musicbrainz module, its    *)
(* promise chain, rate gate, attempt loop and timers.  Times of the client *)
(* are counted in ticks of BACKOFF_BASE_MS (500 ms), which divides every   *)
(* duration of the client; the upstream's answers and latencies are drawn  *)
(* from small sets.                                                        *)
(***************************************************************************)
EXTENDS Integers, Sequences, FiniteSets, TLC

(***************************************************************************)
(* Bounds of the model.                                                    *)
(***************************************************************************)
MaxScans == 2
MaxFsChanges == 1
MaxRequests == 2
MaxSyncs == 2
MaxTitlePieces == 3
MaxWalkDepth == 2
MaxReadFaults == 1

(***************************************************************************)
(* Strings.                                                                *)
(***************************************************************************)
Nil == <<>>

LowerChar(c) ==
  CASE c = "F" -> "f"
    [] c = "O" -> "o"
    [] c = "W" -> "w"
    [] c = "B" -> "b"
    [] OTHER -> c

\* The characters of /[\u2019'\u0060]/ that occur in the modelled names.
IsApostrophe(c) == c = "'"

IsLowerAlnum(c) == c \in {"a", "b", "f", "o", "w", "0", "1", "9"}

RECURSIVE ToLowerCase(_)
ToLowerCase(s) ==
  IF s = <<>> THEN <<>> ELSE <<LowerChar(Head(s))>> \o ToLowerCase(Tail(s))

RECURSIVE RemoveApostrophes(_)
RemoveApostrophes(s) ==
  IF s = <<>> THEN <<>>
  ELSE IF IsApostrophe(Head(s)) THEN RemoveApostrophes(Tail(s))
  ELSE <<Head(s)>> \o RemoveApostrophes(Tail(s))

\* .replace(/[^a-z0-9]+/g, ' '): every maximal run of other characters
\* becomes one space.
RECURSIVE ReplaceRuns(_, _)
ReplaceRuns(s, inRun) ==
  IF s = <<>> THEN <<>>
  ELSE IF IsLowerAlnum(Head(s)) THEN <<Head(s)>> \o ReplaceRuns(Tail(s), FALSE)
  ELSE IF inRun THEN ReplaceRuns(Tail(s), TRUE)
  ELSE <<" ">> \o ReplaceRuns(Tail(s), TRUE)

RECURSIVE TrimLeft(_)
TrimLeft(s) ==
  IF s # <<>> /\ Head(s) = " " THEN TrimLeft(Tail(s)) ELSE s

RECURSIVE TrimRight(_)
TrimRight(s) ==
  IF s # <<>> /\ s[Len(s)] = " " THEN TrimRight(SubSeq(s, 1, Len(s) - 1)) ELSE s

Trim(s) == TrimRight(TrimLeft(s))

NormalizeCompareValue(value) ==
  Trim(ReplaceRuns(RemoveApostrophes(ToLowerCase(value)), FALSE))

BuildAlbumGroupKey(albumName, albumArtistName) ==
  <<NormalizeCompareValue(albumArtistName), NormalizeCompareValue(albumName)>>

\* path.join(artistPath, '.crate', slug + '-' + sha1(albumTitle)[0..8])
CreateVirtualAlbumPath(artistPath, albumTitle) ==
  [dir |-> artistPath, label |-> albumTitle]

(***************************************************************************)
(* The normalizer: stripTrailingYearSuffix, normalizeTitle and             *)
(* isStrongTitleAliasMatch on strings of ASCII characters (on these NFKD   *)
(* is the identity and there are no combining marks or curly quotes).      *)
(***************************************************************************)
UpperLetters ==
  <<"A", "B", "C", "D", "E", "F", "G", "H", "I", "J", "K", "L", "M", "N", "O", "P", "Q", "R", "S", "T", "U", "V", "W", "X", "Y", "Z">>

LowerLetters ==
  <<"a", "b", "c", "d", "e", "f", "g", "h", "i", "j", "k", "l", "m", "n", "o", "p", "q", "r", "s", "t", "u", "v", "w", "x", "y", "z">>

Digits == {"0", "1", "2", "3", "4", "5", "6", "7", "8", "9"}

\* \s
IsSpace(c) == c = " "

\* \w, as \b reads it
IsWordChar(c) ==
  \/ c \in Digits
  \/ c = "_"
  \/ \E i \in DOMAIN LowerLetters : c = LowerLetters[i] \/ c = UpperLetters[i]

\* [\p{P}\p{S}] among the ASCII characters
IsPunctOrSymbol(c) == (~IsWordChar(c) /\ ~IsSpace(c)) \/ c = "_"

\* [-–—]
IsDash(c) == c = "-"

\* .toLowerCase()
LowerLetter(c) ==
  IF \E i \in DOMAIN UpperLetters : c = UpperLetters[i]
    THEN LowerLetters[CHOOSE i \in DOMAIN UpperLetters : c = UpperLetters[i]]
    ELSE c

LowerCase(s) == [i \in DOMAIN s |-> LowerLetter(s[i])]

\* (19\d{2}|20\d{2})
IsYear(q) ==
  /\ Len(q) = 4
  /\ <<q[1], q[2]>> \in {<<"1", "9">>, <<"2", "0">>}
  /\ q[3] \in Digits
  /\ q[4] \in Digits

\* s without its last n characters
DropRight(s, n) == SubSeq(s, 1, Len(s) - n)

\* /(19\d{2}|20\d{2})\s*$/ matches: the year ends the string but for spaces.
EndsWithYear(s) ==
  LET t == TrimRight(s) IN Len(t) >= 4 /\ IsYear(SubSeq(t, Len(t) - 3, Len(t)))

\* .replace(/\s*\((19\d{2}|20\d{2})\)\s*$/, '') with ( and ) given, which
\* is the bracket pattern for [ and ].
StripWrappedYear(s, open, close) ==
  LET t == TrimRight(s)
      n == Len(t)
  IN IF /\ n >= 6
        /\ t[n] = close
        /\ IsYear(SubSeq(t, n - 4, n - 1))
        /\ t[n - 5] = open
       THEN TrimRight(DropRight(t, 6))
       ELSE s

\* A dash pattern that never matches.
StripDashYearNever(s) == s

\* .replace(/\s+[-–—]\s+(19\d{2}|20\d{2})\s*$/, '')
StripDashYear(s) ==
  IF ~EndsWithYear(s) THEN s
  ELSE LET beforeYear == DropRight(TrimRight(s), 4)
           beforeGap == TrimRight(beforeYear)
           beforeDash == DropRight(beforeGap, 1)
           base == TrimRight(beforeDash)
       IN IF /\ Len(beforeGap) < Len(beforeYear)
             /\ beforeGap # <<>>
             /\ IsDash(beforeGap[Len(beforeGap)])
             /\ Len(base) < Len(beforeDash)
            THEN base
            ELSE s

\* value.match(/\s+(19\d{2}|20\d{2})\s*$/)
BareYearMatch(s) ==
  /\ EndsWithYear(s)
  /\ LET beforeYear == DropRight(TrimRight(s), 4)
     IN Len(TrimRight(beforeYear)) < Len(beforeYear)

\* .replace(/[\p{P}\p{S}]/gu, ' ')
PunctuationToSpace(s) ==
  [i \in DOMAIN s |-> IF IsPunctOrSymbol(s[i]) THEN " " ELSE s[i]]

\* .replace(/\s+/g, ' ')
RECURSIVE CollapseSpaces(_)
CollapseSpaces(s) ==
  IF s = <<>> THEN <<>>
  ELSE IF IsSpace(Head(s))
    THEN <<" ">> \o CollapseSpaces(TrimLeft(s))
    ELSE <<Head(s)>> \o CollapseSpaces(Tail(s))

LIVE == <<"l", "i", "v", "e">>
THE == <<"t", "h", "e">>
CONSERVATIVE_BARE_YEAR_EXCLUSIONS == {LIVE, THE}

stripTrailingYearSuffix(input) ==
  LET value == Trim(StripDashYear(
                 StripWrappedYear(StripWrappedYear(Trim(input), "(", ")"),
                                  "[", "]")))
      withoutYear == Trim(DropRight(TrimRight(value), 4))
      normalizedBase ==
        Trim(CollapseSpaces(PunctuationToSpace(LowerCase(withoutYear))))
  IN IF ~BareYearMatch(value) THEN value
     ELSE IF withoutYear = <<>> THEN value
     ELSE IF normalizedBase \in CONSERVATIVE_BARE_YEAR_EXCLUSIONS THEN value
     ELSE withoutYear

\* .replace(/[+&]/g, ' and ')
RECURSIVE ReplaceAmpersand(_)
ReplaceAmpersand(s) ==
  IF s = <<>> THEN <<>>
  ELSE IF Head(s) \in {"+", "&"}
    THEN <<" ", "a", "n", "d", " ">> \o ReplaceAmpersand(Tail(s))
    ELSE <<Head(s)>> \o ReplaceAmpersand(Tail(s))

\* The word w stands at position i of s between two word boundaries.
WordAt(s, w, i) ==
  /\ i + Len(w) - 1 <= Len(s)
  /\ SubSeq(s, i, i + Len(w) - 1) = w
  /\ i = 1 \/ ~IsWordChar(s[i - 1])
  /\ i + Len(w) > Len(s) \/ ~IsWordChar(s[i + Len(w)])

\* .replace(/\b(w1|w2|...)\b/g, ' ') from position i on, the alternatives
\* tried in the order of ws.
RECURSIVE ReplaceWords(_, _, _)
ReplaceWords(s, ws, i) ==
  IF i > Len(s) THEN <<>>
  ELSE LET hits == {k \in DOMAIN ws : WordAt(s, ws[k], i)}
       IN IF hits = {}
            THEN <<s[i]>> \o ReplaceWords(s, ws, i + 1)
            ELSE LET k == CHOOSE k \in hits : \A j \in hits : k <= j
                 IN <<" ">> \o ReplaceWords(s, ws, i + Len(ws[k]))

\* Each pattern with its alternatives, the longer match first as the
\* greedy optional group tries it.
SUFFIX_PATTERNS ==
  <<<<<<"d", "e", "l", "u", "x", "e">>>>,
    <<<<"r", "e", "m", "a", "s", "t", "e", "r", "e", "d">>, <<"r", "e", "m", "a", "s", "t", "e", "r">>>>,
    <<<<"a", "n", "n", "i", "v", "e", "r", "s", "a", "r", "y">>>>,
    <<<<"e", "x", "p", "a", "n", "d", "e", "d">>>>,
    <<<<"s", "p", "e", "c", "i", "a", "l", " ", "e", "d", "i", "t", "i", "o", "n">>>>,
    <<<<"b", "o", "n", "u", "s", " ", "t", "r", "a", "c", "k", "s">>, <<"b", "o", "n", "u", "s", " ", "t", "r", "a", "c", "k">>>>,
    <<<<"e", "d", "i", "t", "i", "o", "n">>>>>>

RECURSIVE ReplaceSuffixPatterns(_, _)
ReplaceSuffixPatterns(s, patterns) ==
  IF patterns = <<>> THEN s
  ELSE ReplaceSuffixPatterns(ReplaceWords(s, Head(patterns), 1), Tail(patterns))

normalizeTitle(input) ==
  LET stripped == stripTrailingYearSuffix(input)
      lowered == LowerCase(stripped)
      spelled == ReplaceAmpersand(lowered)
      spaced == PunctuationToSpace(spelled)
      plain == ReplaceSuffixPatterns(spaced, SUFFIX_PATTERNS)
  IN Trim(CollapseSpaces(plain))

\* normalizedTitle.includes(part)
Includes(s, part) ==
  \E i \in 1 .. (Len(s) - Len(part) + 1) : SubSeq(s, i, i + Len(part) - 1) = part

\* new Set(normalizedTitle.split(' ').filter(Boolean))
toTokenSet(s) ==
  {SubSeq(s, i, j) :
     <<i, j>> \in {<<a, b>> \in (DOMAIN s) \X (DOMAIN s) :
                     /\ a <= b
                     /\ a = 1 \/ s[a - 1] = " "
                     /\ b = Len(s) \/ s[b + 1] = " "
                     /\ \A k \in a .. b : s[k] # " "}}

isStrongTitleAliasMatch(normalizedOwnedTitle, normalizedExpectedTitle) ==
  IF normalizedOwnedTitle = <<>> \/ normalizedExpectedTitle = <<>> THEN FALSE
  ELSE IF normalizedOwnedTitle = normalizedExpectedTitle THEN TRUE
  ELSE IF /\ ~Includes(normalizedOwnedTitle, normalizedExpectedTitle)
          /\ ~Includes(normalizedExpectedTitle, normalizedOwnedTitle) THEN FALSE
  ELSE LET ownedTokens == toTokenSet(normalizedOwnedTitle)
           expectedTokens == toTokenSet(normalizedExpectedTitle)
           ownedIsSmaller == Cardinality(ownedTokens) <= Cardinality(expectedTokens)
           smaller == IF ownedIsSmaller THEN ownedTokens ELSE expectedTokens
           larger == IF ownedIsSmaller THEN expectedTokens ELSE ownedTokens
       IN IF Cardinality(smaller) < 3 THEN FALSE
          ELSE 4 * Cardinality(smaller \cap larger) >= 3 * Cardinality(smaller)

(***************************************************************************)
(* The library on disk.  Two artist directories whose names differ but     *)
(* normalize alike, and six directory entries; entries 1, 2 and 3 are hard *)
(* links of one file, and stat reports no inode number for entry 6.        *)
(***************************************************************************)
Fo == <<"F", "o">>
FoApos == <<"F", "o", "'">>

\* The top-level directories in the order of .sort(localeCompare).
LibraryDirs == <<Fo, FoApos>>

AUDIO_EXTS == {"flac", "mp3", "m4a", "aac", "ogg", "opus", "wav", "aiff", "alac"}

NoTags == [album |-> Nil, albumArtist |-> Nil, artist |-> Nil]

Entries ==
  <<[dir |-> Fo, ext |-> "mp3", ino |-> 1, mtime |-> 10, size |-> 136,
     content |-> [album |-> <<"W">>, albumArtist |-> Nil, artist |-> Fo]],
    [dir |-> Fo, ext |-> "mp3", ino |-> 1, mtime |-> 10, size |-> 136,
     content |-> [album |-> <<"W">>, albumArtist |-> Nil, artist |-> Fo]],
    [dir |-> FoApos, ext |-> "mp3", ino |-> 1, mtime |-> 10, size |-> 136,
     content |-> [album |-> <<"W">>, albumArtist |-> Nil, artist |-> Fo]],
    [dir |-> Fo, ext |-> "flac", ino |-> 2, mtime |-> 11, size |-> 200,
     content |-> [album |-> <<"w">>, albumArtist |-> Fo, artist |-> <<"B", "a">>]],
    [dir |-> Fo, ext |-> "jpg", ino |-> 3, mtime |-> 12, size |-> 50,
     content |-> NoTags],
    [dir |-> FoApos, ext |-> "ogg", ino |-> 0, mtime |-> 13, size |-> 300,
     content |-> [album |-> <<"W">>, albumArtist |-> Nil, artist |-> Fo]]>>

FileIds == DOMAIN Entries
DirIds == DOMAIN LibraryDirs

IsAudioFileName(f) == Entries[f].ext \in AUDIO_EXTS

GetStatInodeKey(f) ==
  IF Entries[f].ino <= 0 THEN 0 ELSE Entries[f].ino

(***************************************************************************)
(* State.                                                                  *)
(***************************************************************************)
VARIABLES
  running,          \* Scanner.running
  cancelRequested,  \* Scanner.cancelRequested
  immediates,       \* the setImmediate callbacks not yet run (scan options)
  pc,               \* the position of runScan; "idle" when none is running
  scan,             \* the local variables of the running runScan
  now,              \* the last reading of the clock by nowIso(); 0: none yet
  fs,               \* the library on disk
  artists,          \* table artists: id -> row
  albums,           \* table albums: path -> row
  tracks,           \* table tracks: path -> row
  fileIndex,        \* table file_index: path -> row
  scanSkipped,      \* table scan_skipped, in insertion order
  scanState,        \* the row of scan_state
  lastStart,        \* what the last startScan returned
  lastCancel,       \* what the last requestCancel returned, and during
                    \* which scan (the number of scans accepted before it)
  scansStarted,     \* number of accepted startScan calls
  fsChanges         \* number of changes made to the library

VARIABLES
  queue,            \* musicbrainz: the requests chained on the promise queue
                    \* whose callback has not run yet, oldest first
  lastRequestAt,    \* musicbrainz: lastRequestAt
  requests,         \* the scheduleRequest calls made so far: number -> state
  mbNow             \* Date.now() as the metadata client reads it, in ticks

scannerVars == <<running, cancelRequested, immediates, pc, scan, now, fs,
                 artists, albums, tracks, fileIndex, scanSkipped, scanState,
                 lastStart, lastCancel, scansStarted, fsChanges>>

clientVars == <<queue, lastRequestAt, requests, mbNow>>

\* The discography service: the tables expected_artists and expected_albums
\* with the AUTOINCREMENT counter of the latter, the calls of
\* syncExpectedForArtist, the upstream lookups they wait for in the order of
\* the request queue, whether that queue holds a rejected promise, and
\* Date.now() in ms.
VARIABLES expectedArtists, expectedAlbums, expectedAlbumSeq, syncs, upstream,
          upstreamRejected, syncNow

syncVars == <<expectedArtists, expectedAlbums, expectedAlbumSeq, syncs,
              upstream, upstreamRejected, syncNow>>

\* The normalizer is pure; norm holds the call of it that a caller is
\* making: its input and its result.
VARIABLES norm

normVars == <<norm>>

\* The tables the summary reads beside albums and expected_albums:
\* expected_ignored, album_match_overrides and expected_artist_settings;
\* and the last request of the expected-albums API with its reply; and the
\* table wishlist_albums, as the set of the expectedAlbumId of its rows.
VARIABLES ignored, overrides, settings, call, wishlist

summaryVars == <<ignored, overrides, settings, call, wishlist>>

\* The walker is a function of the directory tree; walk holds the call of
\* it under way: its options, its stack, and what it has collected.
VARIABLES walk

walkVars == <<walk>>

\* What a step of the scanner leaves alone, and what a step of the metadata
\* client leaves alone.
outsideScanner == <<clientVars, syncVars, normVars, summaryVars, walkVars>>
outsideClient == <<scannerVars, syncVars, normVars, summaryVars, walkVars>>
outsideSync == <<scannerVars, clientVars, normVars, summaryVars, walkVars>>
outsideNorm == <<scannerVars, clientVars, syncVars, summaryVars, walkVars>>
outsideSummary == <<scannerVars, clientVars, syncVars, normVars, walkVars>>
outsideWalk == <<scannerVars, clientVars, syncVars, normVars, summaryVars>>
outsideLibrary == <<clientVars, syncVars, normVars, walkVars>>

vars == <<running, cancelRequested, immediates, pc, scan, now, fs, artists,
          albums, tracks, fileIndex, scanSkipped, scanState, lastStart,
          lastCancel, scansStarted, fsChanges, clientVars, syncVars, normVars,
          summaryVars, walkVars>>

dbVars == <<artists, albums, tracks, fileIndex, scanSkipped, scanState>>

Reasons == {"unsupported extension", "unreadable", "missing album tag",
            "missing artist tag", "duplicate", "parse error"}

NoReasons == [r \in Reasons |-> 0]

\* The row INSERT OR IGNORE INTO scan_state (id) VALUES (1) creates.
InitialScanState ==
  [status |-> "idle", startedAt |-> 0, scannedFiles |-> 0, scannedAlbums |-> 0,
   scannedArtists |-> 0, skippedFiles |-> 0, skippedReasons |-> NoReasons,
   error |-> FALSE]

(***************************************************************************)
(* Helpers on tables.                                                      *)
(***************************************************************************)
Range(s) == {s[i] : i \in DOMAIN s}

RECURSIVE SetToSeq(_)
\* The elements of a set of numbers in ascending order.
SetToSeq(S) ==
  IF S = {} THEN <<>>
  ELSE LET m == CHOOSE x \in S : \A y \in S : x <= y
       IN <<m>> \o SetToSeq(S \ {m})

Put(tbl, key, row) ==
  [k \in (DOMAIN tbl) \cup {key} |-> IF k = key THEN row ELSE tbl[k]]

\* An in-flight scan: from an accepted startScan until its runScan has
\* finished.
InFlight == immediates # <<>> \/ pc # "idle"

\* The event loop can dispatch a macrotask (a request handler, a
\* setImmediate callback): nothing is on the stack, no microtask is queued.
LoopIdle == pc = "idle"

(***************************************************************************)
(* Tag Reader and Walker.                                                  *)
(***************************************************************************)
\* A reader that takes the tags of a file of any extension.
ReadTagsAnyExt(f) ==
  LET c == Entries[f].content IN
  [album |-> c.album, albumArtist |-> c.albumArtist, artist |-> c.artist]

ReadTags(f) ==
  LET c == Entries[f].content IN
  IF Entries[f].ext = "flac"
    THEN [album |-> c.album, albumArtist |-> c.albumArtist, artist |-> c.artist]
  ELSE IF Entries[f].ext = "mp3"
    THEN IF c.album = Nil THEN NoTags
         ELSE [album |-> c.album, albumArtist |-> c.artist, artist |-> c.artist]
  ELSE NoTags

ResolveArtistNameFromTags(tagInfo, fallbackArtistName) ==
  IF tagInfo.albumArtist # Nil THEN tagInfo.albumArtist
  ELSE IF tagInfo.artist # Nil THEN tagInfo.artist
  ELSE fallbackArtistName

\* The entries readdirSync returns for an artist directory, in its order.
DirEntries(artistName) ==
  SetToSeq({f \in fs.files : Entries[f].dir = artistName})

DirExists(artistName) ==
  \E d \in fs.dirs : LibraryDirs[d] = artistName

RECURSIVE WalkEntries(_)
\* The loop over the entries of one directory: [out, skipped].
WalkEntries(entries) ==
  IF entries = <<>> THEN [out |-> <<>>, skipped |-> <<>>]
  ELSE LET rest == WalkEntries(Tail(entries))
           f == Head(entries)
       IN IF ~IsAudioFileName(f)
            THEN [out |-> rest.out,
                  skipped |-> <<[filePath |-> f, reason |-> "unsupported-extension"]>>
                              \o rest.skipped]
            ELSE [out |-> <<f>> \o rest.out, skipped |-> rest.skipped]

CollectArtistTracks(artistName, readable) ==
  IF ~DirExists(artistName) \/ ~readable
    THEN [out |-> <<>>,
          skipped |-> <<[filePath |-> artistName, reason |-> "unreadable-directory"]>>]
    ELSE WalkEntries(DirEntries(artistName))

NormalizeSkipReason(reason) ==
  CASE reason = "unsupported-extension" -> "unsupported extension"
    [] reason \in {"unreadable-directory", "unreadable-path"} -> "unreadable"
    [] reason = "missing-album-tag" -> "missing album tag"
    [] reason \in {"missing-artist-tag", "missing-artist-tag:mismatch"} -> "missing artist tag"
    [] reason = "deduped" -> "duplicate"
    [] reason = "parse-error" -> "parse error"
    [] OTHER -> reason

PushSkip(skipped, filePath, reason) ==
  Append(skipped, [filePath |-> filePath, reason |-> NormalizeSkipReason(reason)])

RECURSIVE PushSkips(_, _)
PushSkips(skipped, raw) ==
  IF raw = <<>> THEN skipped
  ELSE PushSkips(PushSkip(skipped, Head(raw).filePath, Head(raw).reason), Tail(raw))

ComputeDedupeKeyByPath(metadata) == <<"path", metadata.path>>

ComputeDedupeKey(metadata) ==
  IF metadata.inodeKey # 0 THEN <<"inode", metadata.inodeKey>>
  ELSE <<"fallback", metadata.size, metadata.mtime, metadata.path>>

(***************************************************************************)
(* Scanner: the table writes.                                              *)
(***************************************************************************)
IsStale(row, seenAt) == row.lastSeen < seenAt

UpsertArtist(tbl, name, seenAt) ==
  LET existing == {i \in DOMAIN tbl : tbl[i].name = name} IN
  IF existing # {}
    THEN LET id == CHOOSE i \in existing : TRUE
         IN [artists |-> [tbl EXCEPT ![id].lastSeen = seenAt, ![id].deleted = FALSE],
             id |-> id]
    ELSE [artists |-> Append(tbl, [name |-> name, lastSeen |-> seenAt, deleted |-> FALSE]),
          id |-> Len(tbl) + 1]

\* An upsert that replaces the whole row, the default of owned included.
UpsertAlbumReplacingRow(tbl, artistId, title, albumPath, seenAt, trackCount) ==
  Put(tbl, albumPath,
      [artistId |-> artistId, title |-> title, lastSeen |-> seenAt,
       trackCount |-> trackCount, deleted |-> FALSE, owned |-> TRUE])

UpsertAlbum(tbl, artistId, title, albumPath, seenAt, trackCount) ==
  IF albumPath \in DOMAIN tbl
    THEN [tbl EXCEPT ![albumPath] =
            [@ EXCEPT !.artistId = artistId, !.title = title, !.lastSeen = seenAt,
                      !.trackCount = trackCount, !.deleted = FALSE]]
    ELSE Put(tbl, albumPath,
             [artistId |-> artistId, title |-> title, lastSeen |-> seenAt,
              trackCount |-> trackCount, deleted |-> FALSE, owned |-> TRUE])

SyncTracks(tbl, albumId, trks, seenAt) ==
  LET seen == [p \in (DOMAIN tbl) \cup Range(trks) |->
                 IF p \in Range(trks)
                   THEN [albumId |-> albumId, lastSeen |-> seenAt, deleted |-> FALSE]
                   ELSE tbl[p]]
  IN [p \in DOMAIN seen |->
        IF seen[p].albumId = albumId /\ IsStale(seen[p], seenAt)
          THEN [seen[p] EXCEPT !.deleted = TRUE]
          ELSE seen[p]]

SyncAlbum(db, artistId, grp, seenAt) ==
  IF grp.tracks = <<>> THEN db
  ELSE [albums |-> UpsertAlbum(db.albums, artistId, grp.title, grp.albumPath,
                               seenAt, Len(grp.tracks)),
        tracks |-> SyncTracks(db.tracks, grp.albumPath, grp.tracks, seenAt)]

RECURSIVE SyncAlbums(_, _, _, _)
\* The loop over tracksByAlbum.values().
SyncAlbums(db, artistId, groups, seenAt) ==
  IF groups = <<>> THEN db
  ELSE SyncAlbums(SyncAlbum(db, artistId, Head(groups), seenAt),
                  artistId, Tail(groups), seenAt)

TrackTotalOnePerAlbum(groups) == Len(groups)

RECURSIVE TrackTotal(_)
\* scannedFiles += trackCount, over the albums of one artist.
TrackTotal(groups) ==
  IF groups = <<>> THEN 0 ELSE Len(Head(groups).tracks) + TrackTotal(Tail(groups))

RECURSIVE CountReasons(_, _)
CountReasons(reasons, skipped) ==
  IF skipped = <<>> THEN reasons
  ELSE CountReasons([reasons EXCEPT ![Head(skipped).reason] = @ + 1], Tail(skipped))

RecordSkipped(tbl, scanStartedAt, skipped) ==
  tbl \o [i \in DOMAIN skipped |->
            [scanStartedAt |-> scanStartedAt, filePath |-> skipped[i].filePath,
             reason |-> skipped[i].reason]]

UpdateScanProgress(row, scannedFiles, scannedAlbums, scannedArtists, skippedFiles, skippedReasons) ==
  [row EXCEPT !.scannedFiles = scannedFiles, !.scannedAlbums = scannedAlbums,
              !.scannedArtists = scannedArtists, !.skippedFiles = skippedFiles,
              !.skippedReasons = skippedReasons]

\* A sweep that removes the stale rows.
HardDeleteStale(tbl, seenAt) ==
  [k \in {x \in DOMAIN tbl : ~IsStale(tbl[x], seenAt)} |-> tbl[k]]

SoftDeleteStale(tbl, seenAt) ==
  [k \in DOMAIN tbl |->
     IF IsStale(tbl[k], seenAt) THEN [tbl[k] EXCEPT !.deleted = TRUE] ELSE tbl[k]]

PruneFileIndex(tbl, seenAt) ==
  [k \in {p \in DOMAIN tbl : ~(tbl[p].lastScanAt < seenAt)} |-> tbl[k]]

SweepAlways(scanArtistId) == TRUE

SweepNever(scanArtistId) == FALSE

\* if (!scanArtistId): the final transaction sweeps on a full-library run.
SweepApplies(scanArtistId) == scanArtistId = 0

FinishedStatusIdle(cancel) == "idle"

\* this.cancelRequested ? 'cancelled' : 'idle'
FinishedStatus(cancel) == IF cancel THEN "cancelled" ELSE "idle"

\* buildTrackMetadata: the file_index row written and the metadata returned.
\* Past the album-tag filter albumTitle is the album tag on both paths (the
\* file-name fallback applies only when the tag is missing), so albumTitle
\* is modelled by tagInfo.album.
\* tagInfo of a cache hit: the tags of the file_index row.
CachedTagInfo(cached) ==
  [album |-> cached.albumTag, albumArtist |-> cached.albumArtistTag,
   artist |-> cached.artistTag]

\* cached && cached.mtime === track.mtime && cached.size === track.size
IndexHit(tbl, f) ==
  /\ f \in DOMAIN tbl
  /\ tbl[f].mtime = Entries[f].mtime
  /\ tbl[f].size = Entries[f].size

\* buildTrackMetadata opens the file when no file_index row serves: readTags
\* opens a flac or mp3 file, hashFileFirstChunk a file without inode key.
OpensFile(tbl, f) ==
  /\ ~IndexHit(tbl, f)
  /\ Entries[f].ext \in {"flac", "mp3"} \/ GetStatInodeKey(f) = 0

\* try { tagInfo = readTags(track) } catch { tagInfo = null }; opens tells
\* whether the file can be opened and read.
TryReadTags(f, opens) ==
  IF Entries[f].ext \in {"flac", "mp3"} /\ ~opens THEN NoTags ELSE ReadTags(f)

\* !track.inodeKey ? hashFileFirstChunk(track.path) : null throws when the
\* file cannot be opened.
HashThrows(f, opens) == GetStatInodeKey(f) = 0 /\ ~opens

\* buildTrackMetadata: thrown tells that it threw, and then no row of
\* file_index was written.
BuildTrackMetadata(tbl, f, artistName, seenAt, opens) ==
  LET e == Entries[f]
      hit == IndexHit(tbl, f)
  IN IF hit
       THEN LET cached == tbl[f]
                tagInfo == CachedTagInfo(cached)
            IN [thrown |-> FALSE,
                fileIndex |-> [tbl EXCEPT ![f].lastScanAt = seenAt],
                metadata |-> [path |-> f, mtime |-> e.mtime, size |-> e.size,
                              tagInfo |-> tagInfo,
                              inodeKey |-> cached.inodeKey,
                              albumTitle |-> cached.albumTag,
                              albumArtistName |->
                                ResolveArtistNameFromTags(tagInfo, artistName)]]
       ELSE IF HashThrows(f, opens)
         THEN [thrown |-> TRUE, fileIndex |-> tbl,
               metadata |-> [path |-> 0, mtime |-> 0, size |-> 0,
                             tagInfo |-> NoTags, inodeKey |-> 0,
                             albumTitle |-> Nil, albumArtistName |-> Nil]]
       ELSE LET tagInfo == TryReadTags(f, opens)
            IN [thrown |-> FALSE,
                fileIndex |->
                  Put(tbl, f, [mtime |-> e.mtime, size |-> e.size,
                               inodeKey |-> GetStatInodeKey(f),
                               albumTag |-> tagInfo.album,
                               albumArtistTag |-> tagInfo.albumArtist,
                               artistTag |-> tagInfo.artist,
                               lastScanAt |-> seenAt]),
                metadata |-> [path |-> f, mtime |-> e.mtime, size |-> e.size,
                              tagInfo |-> tagInfo,
                              inodeKey |-> GetStatInodeKey(f),
                              albumTitle |-> tagInfo.album,
                              albumArtistName |->
                                ResolveArtistNameFromTags(tagInfo, artistName)]]

NoMetadata ==
  [path |-> 0, mtime |-> 0, size |-> 0, tagInfo |-> NoTags, inodeKey |-> 0,
   albumTitle |-> Nil, albumArtistName |-> Nil]

\* The admission filters of the track loop: the raw skip reason, or "" when
\* the track is admitted.
AdmissionSkip(metadata, artistName, seenDedupKeys) ==
  IF metadata.tagInfo.album = Nil THEN "missing-album-tag"
  ELSE IF metadata.tagInfo.albumArtist = Nil /\ metadata.tagInfo.artist = Nil
    THEN "missing-artist-tag"
  ELSE IF /\ NormalizeCompareValue(artistName) # Nil
          /\ NormalizeCompareValue(metadata.albumArtistName) # Nil
          /\ NormalizeCompareValue(artistName)
               # NormalizeCompareValue(metadata.albumArtistName)
    THEN "missing-artist-tag:mismatch"
  ELSE IF ComputeDedupeKey(metadata) \in seenDedupKeys THEN "deduped"
  ELSE ""

\* tracksByAlbum.get(key).tracks.push(track), creating the group first when
\* the key is new (a Map keeps insertion order).
AddToGroup(groups, artistName, metadata) ==
  LET key == BuildAlbumGroupKey(metadata.albumTitle, metadata.albumArtistName)
      at == {i \in DOMAIN groups : groups[i].key = key}
  IN IF at # {}
       THEN LET i == CHOOSE j \in at : TRUE
            IN [groups EXCEPT ![i].tracks = Append(@, metadata.path)]
       ELSE Append(groups,
                   [key |-> key, title |-> metadata.albumTitle,
                    albumPath |-> CreateVirtualAlbumPath(
                      artistName,
                      metadata.albumArtistName \o <<"-">> \o metadata.albumTitle),
                    tracks |-> <<metadata.path>>])

(***************************************************************************)
(* Request handlers.                                                       *)
(***************************************************************************)
StartRejectedNever == FALSE

\* if (this.running) return { started: false, ... }
StartRejected == running

CancelRefusedNever == FALSE

\* if (!this.running) return false
CancelRefused == ~running

\* The artistId a caller may send; 0 stands for none (null, and the integer
\* 0, which runScan treats alike).
ArtistIdOptions == 0 .. (Len(LibraryDirs) + 1)

StartScan(artistId) ==
  /\ LoopIdle
  /\ scansStarted < MaxScans
  /\ IF StartRejected
       THEN /\ lastStart' = [called |-> TRUE, started |-> FALSE, inFlight |-> InFlight,
                             status |-> scanState]
            /\ UNCHANGED <<running, cancelRequested, immediates, scansStarted>>
       ELSE /\ running' = TRUE
            /\ cancelRequested' = FALSE
            /\ immediates' = Append(immediates, [artistId |-> artistId])
            /\ lastStart' = [called |-> TRUE, started |-> TRUE, inFlight |-> InFlight,
                             status |-> scanState]
            /\ scansStarted' = scansStarted + 1
  /\ UNCHANGED <<pc, scan, now, fs, dbVars, lastCancel, fsChanges>>

RequestCancel ==
  /\ LoopIdle
  /\ lastCancel' = [called |-> TRUE, result |-> ~CancelRefused,
                    inFlight |-> InFlight, scanNo |-> scansStarted]
  /\ cancelRequested' = IF CancelRefused THEN cancelRequested ELSE TRUE
  /\ UNCHANGED <<running, immediates, pc, scan, now, fs, dbVars, lastStart,
                 scansStarted, fsChanges>>

ClearLibraryState ==
  /\ tracks' = <<>>
  /\ albums' = <<>>
  /\ artists' = [i \in DOMAIN artists |-> [artists[i] EXCEPT !.deleted = TRUE]]
  /\ scanState' = InitialScanState
  /\ UNCHANGED <<fileIndex, scanSkipped>>

RebuildRefusedNever == FALSE

\* if (scanner.running) return reply.code(409)
RebuildRefused == running

\* POST /api/library/rebuild: clearLibraryState, then startScan with no
\* options.
Rebuild ==
  /\ LoopIdle
  /\ running \/ scansStarted < MaxScans
  /\ IF RebuildRefused
       THEN UNCHANGED <<dbVars, running, cancelRequested, immediates, scansStarted>>
       ELSE /\ ClearLibraryState
            /\ IF StartRejected
                 THEN UNCHANGED <<running, cancelRequested, immediates, scansStarted>>
                 ELSE /\ running' = TRUE
                      /\ cancelRequested' = FALSE
                      /\ immediates' = Append(immediates, [artistId |-> 0])
                      /\ scansStarted' = scansStarted + 1
  /\ UNCHANGED <<pc, scan, now, fs, lastStart, lastCancel, fsChanges>>

(***************************************************************************)
(* The environment: the library changing on disk.                          *)
(***************************************************************************)
Toggle(S, x) == IF x \in S THEN S \ {x} ELSE S \cup {x}

FsChange ==
  /\ LoopIdle
  /\ fsChanges < MaxFsChanges
  /\ fsChanges' = fsChanges + 1
  /\ \/ \E f \in FileIds : fs' = [fs EXCEPT !.files = Toggle(@, f)]
     \/ \E d \in DirIds : fs' = [fs EXCEPT !.dirs = Toggle(@, d)]
     \/ fs' = [fs EXCEPT !.exists = ~@]
  /\ UNCHANGED <<running, cancelRequested, immediates, pc, scan, now, dbVars,
                 lastStart, lastCancel, scansStarted>>

(***************************************************************************)
(* runScan.  Its positions: "begin" (the two statements before try),       *)
(* "setup" (the start of the try block), "artist" (head of the artist      *)
(* loop), "track" (head of the track loop), "await" (suspended on the      *)
(* await of buildTrackMetadata's result), "albums" (after the track loop), *)
(* "final" (after the artist loop).  The fields candidates, walkerSkips    *)
(* and passed of scan are history: what the walker returned and skipped,   *)
(* and the candidates that passed the tag filters, admitted or not; unread  *)
(* is history too: the artist directories on disk that this scan could not *)
(* list.                                                                   *)
(***************************************************************************)
\* The values of the local variables while no runScan is running.
NoScan ==
  [seenAt |-> 0, scanArtistId |-> 0, artistDirs |-> <<>>,
   scannedFiles |-> 0, scannedAlbums |-> 0, skippedFiles |-> 0,
   skippedReasons |-> NoReasons, artistsSeen |-> {}, seenDedupKeys |-> {},
   artistName |-> Nil, artistId |-> 0, skipped |-> <<>>,
   artistTracks |-> <<>>, tracksByAlbum |-> <<>>, track |-> 0,
   metadata |-> NoMetadata,
   candidates |-> 0, walkerSkips |-> 0, passed |-> <<>>, unread |-> {}]


\* What nowIso() may return: the last reading again (the same millisecond)
\* or a later one.  Time stamps matter by their order alone, so the first
\* reading is 1 and a later one is the next number.
NowIso == IF now = 0 THEN {1} ELSE {now, now + 1}

\* The setImmediate callback: runScan up to the try block.
RunScanBegin ==
  /\ LoopIdle
  /\ immediates # <<>>
  /\ immediates' = Tail(immediates)
  /\ \E seenAt \in NowIso :
       /\ now' = seenAt
       /\ scan' = [NoScan EXCEPT !.seenAt = seenAt,
                                 !.scanArtistId = Head(immediates).artistId]
       /\ scanSkipped' = SelectSeq(scanSkipped,
                                   LAMBDA r : ~(r.scanStartedAt < seenAt))
       /\ scanState' = [status |-> "running", startedAt |-> seenAt,
                        scannedFiles |-> 0, scannedAlbums |-> 0,
                        scannedArtists |-> 0, skippedFiles |-> 0,
                        skippedReasons |-> NoReasons, error |-> FALSE]
  /\ pc' = "setup"
  /\ UNCHANGED <<running, cancelRequested, fs, artists, albums, tracks,
                 fileIndex, lastStart, lastCancel, scansStarted, fsChanges>>

\* The catch block without the finally block: the flags stay as they are.
ScanFailsWithoutFinally ==
  /\ scanState' = [scanState EXCEPT !.status = "error", !.error = TRUE]
  /\ pc' = "idle"
  /\ scan' = NoScan
  /\ UNCHANGED <<running, cancelRequested, immediates, now, fs, artists, albums,
                 tracks, fileIndex, scanSkipped, lastStart, lastCancel,
                 scansStarted, fsChanges>>

\* catch (error) { status = 'error' } finally { running = false; ... }
ScanFails ==
  /\ scanState' = [scanState EXCEPT !.status = "error", !.error = TRUE]
  /\ running' = FALSE
  /\ cancelRequested' = FALSE
  /\ pc' = "idle"
  /\ scan' = NoScan
  /\ UNCHANGED <<immediates, now, fs, artists, albums, tracks, fileIndex,
                 scanSkipped, lastStart, lastCancel, scansStarted, fsChanges>>

\* Whether readdirSync of a directory that exists succeeds; it may fail
\* while failures remain within the bound.
ListOutcomes ==
  {TRUE} \cup (IF fs.failedReads < MaxReadFaults THEN {FALSE} ELSE {})

\* The artist directories of the library root, as the disk holds them.
RootDirs == {LibraryDirs[d] : d \in fs.dirs}

\* rootEntries filtered to the visible directories and sorted; [] when
\* readdirSync has thrown.
ArtistDirsOf(listed) ==
  IF listed
    THEN [i \in 1 .. Cardinality(fs.dirs) |-> LibraryDirs[SetToSeq(fs.dirs)[i]]]
    ELSE <<>>

ScanSetup ==
  /\ pc = "setup"
  /\ IF ~fs.exists THEN ScanFails
     ELSE IF scan.scanArtistId # 0
       THEN IF scan.scanArtistId \notin DOMAIN artists THEN ScanFails
            ELSE /\ scan' = [scan EXCEPT
                       !.artistDirs = <<artists[scan.scanArtistId].name>>]
                 /\ pc' = "artist"
                 /\ UNCHANGED <<running, cancelRequested, immediates, now, fs,
                                dbVars, lastStart, lastCancel, scansStarted,
                                fsChanges>>
     ELSE /\ \E listed \in ListOutcomes :
               /\ scan' = [scan EXCEPT
                     !.artistDirs = ArtistDirsOf(listed),
                     !.unread = IF listed THEN {} ELSE RootDirs]
               /\ fs' = IF listed THEN fs
                        ELSE [fs EXCEPT !.failedReads = @ + 1]
          /\ pc' = "artist"
          /\ UNCHANGED <<running, cancelRequested, immediates, now, dbVars,
                         lastStart, lastCancel, scansStarted, fsChanges>>

\* An artist loop that never sees the flag.
CancelSeenAtArtistNever == FALSE

\* if (this.cancelRequested) break;  at the head of the artist loop
CancelSeenAtArtist == cancelRequested

\* Whether readdirSync of the artist directory succeeds: a directory on
\* disk may fail to list while failures remain within the bound.
DirOutcomes(artistName) ==
  {TRUE} \cup (IF DirExists(artistName) /\ fs.failedReads < MaxReadFaults
                 THEN {FALSE} ELSE {})

ScanArtist ==
  /\ pc = "artist"
  /\ IF CancelSeenAtArtist \/ scan.artistDirs = <<>>
       THEN /\ pc' = "final"
            /\ UNCHANGED <<scan, dbVars, fs>>
       ELSE \E readable \in DirOutcomes(Head(scan.artistDirs)) :
            LET artistName == Head(scan.artistDirs)
                up == UpsertArtist(artists, artistName, scan.seenAt)
                collected == CollectArtistTracks(artistName, readable)
            IN /\ fs' = IF readable THEN fs
                        ELSE [fs EXCEPT !.failedReads = @ + 1]
               /\ scanState' = UpdateScanProgress(scanState, scan.scannedFiles,
                                 scan.scannedAlbums, Cardinality(scan.artistsSeen),
                                 scan.skippedFiles, scan.skippedReasons)
               /\ artists' = up.artists
               /\ scan' = [scan EXCEPT
                    !.artistName = artistName,
                    !.artistId = up.id,
                    !.artistsSeen = @ \cup {up.id},
                    !.skipped = PushSkips(<<>>, collected.skipped),
                    !.artistTracks = collected.out,
                    !.tracksByAlbum = <<>>,
                    !.candidates = @ + Len(collected.out),
                    !.walkerSkips = @ + Len(collected.skipped),
                    !.unread = IF readable THEN @ ELSE @ \cup {artistName}]
               /\ pc' = "track"
               /\ UNCHANGED <<albums, tracks, fileIndex, scanSkipped>>
  /\ UNCHANGED <<running, cancelRequested, immediates, now, lastStart,
                 lastCancel, scansStarted, fsChanges>>

\* Whether the open of the file succeeds; it may fail while failures
\* remain within the bound.
OpenOutcomes(tbl, f) ==
  {TRUE} \cup (IF OpensFile(tbl, f) /\ fs.failedReads < MaxReadFaults
                 THEN {FALSE} ELSE {})

\* A catch block that drops the file without a skip.
ParseErrorSkipDropped(skipped, filePath) == skipped

\* catch (error) { this.pushSkip(skipped, track.path, `parse-error:...`) }
ParseErrorSkip(skipped, filePath) == PushSkip(skipped, filePath, "parse-error")

\* The head of the track loop and buildTrackMetadata, up to the await; when
\* buildTrackMetadata throws, the catch block and continue.
ScanTrack ==
  /\ pc = "track"
  /\ IF cancelRequested \/ scan.artistTracks = <<>>
       THEN /\ pc' = "albums"
            /\ UNCHANGED <<scan, fileIndex, fs>>
       ELSE \E opens \in OpenOutcomes(fileIndex, Head(scan.artistTracks)) :
              /\ fs' = [fs EXCEPT !.failedReads = IF opens THEN @ ELSE @ + 1]
              /\ fileIndex' =
                   BuildTrackMetadata(fileIndex, Head(scan.artistTracks),
                                      scan.artistName, scan.seenAt, opens).fileIndex
              /\ IF HashThrows(Head(scan.artistTracks), opens)
                      /\ ~IndexHit(fileIndex, Head(scan.artistTracks))
                   THEN /\ scan' = [scan EXCEPT
                             !.artistTracks = Tail(@),
                             !.skipped = ParseErrorSkip(@, Head(scan.artistTracks))]
                        /\ pc' = "track"
                   ELSE /\ scan' = [scan EXCEPT
                             !.artistTracks = Tail(@),
                             !.track = Head(scan.artistTracks),
                             !.metadata =
                               BuildTrackMetadata(fileIndex, Head(scan.artistTracks),
                                                  scan.artistName, scan.seenAt,
                                                  opens).metadata]
                        /\ pc' = "await"
  /\ UNCHANGED <<running, cancelRequested, immediates, now, artists, albums,
                 tracks, scanSkipped, scanState, lastStart, lastCancel,
                 scansStarted, fsChanges>>

\* The continuation of the await: the admission filters and the grouping.
ScanAdmit ==
  /\ pc = "await"
  /\ LET skip == AdmissionSkip(scan.metadata, scan.artistName, scan.seenDedupKeys)
         key == ComputeDedupeKey(scan.metadata)
     IN IF skip # ""
          THEN scan' = [scan EXCEPT
                 !.skipped = PushSkip(@, scan.track, skip),
                 !.passed = IF skip = "deduped"
                              THEN Append(@, [path |-> scan.track,
                                              admitted |-> FALSE])
                              ELSE @,
                 !.track = 0,
                 !.metadata = NoMetadata]
          ELSE scan' = [scan EXCEPT
                 !.seenDedupKeys = @ \cup {key},
                 !.tracksByAlbum = AddToGroup(@, scan.artistName, scan.metadata),
                 !.passed = Append(@, [path |-> scan.track, admitted |-> TRUE]),
                 !.track = 0,
                 !.metadata = NoMetadata]
  /\ pc' = "track"
  /\ UNCHANGED <<running, cancelRequested, immediates, now, fs, dbVars, lastStart,
                 lastCancel, scansStarted, fsChanges>>

\* After the track loop: materialize the albums, count and record the skips.
ScanAlbums ==
  /\ pc = "albums"
  /\ IF cancelRequested
       THEN /\ pc' = "final"
            /\ UNCHANGED <<scan, dbVars>>
       ELSE LET db == SyncAlbums([albums |-> albums, tracks |-> tracks],
                                 scan.artistId, scan.tracksByAlbum, scan.seenAt)
                scannedAlbums == scan.scannedAlbums + Len(scan.tracksByAlbum)
                scannedFiles == scan.scannedFiles + TrackTotal(scan.tracksByAlbum)
                skippedFiles == scan.skippedFiles + Len(scan.skipped)
                skippedReasons == CountReasons(scan.skippedReasons, scan.skipped)
            IN /\ albums' = db.albums
               /\ tracks' = db.tracks
               /\ scanSkipped' = RecordSkipped(scanSkipped, scan.seenAt, scan.skipped)
               /\ scanState' = UpdateScanProgress(scanState, scannedFiles,
                                 scannedAlbums, Cardinality(scan.artistsSeen),
                                 skippedFiles, skippedReasons)
               /\ scan' = [scan EXCEPT
                    !.scannedAlbums = scannedAlbums,
                    !.scannedFiles = scannedFiles,
                    !.skippedFiles = skippedFiles,
                    !.skippedReasons = skippedReasons,
                    !.artistDirs = Tail(@),
                    !.skipped = <<>>,
                    !.tracksByAlbum = <<>>]
               /\ pc' = "artist"
               /\ UNCHANGED <<artists, fileIndex>>
  /\ UNCHANGED <<running, cancelRequested, immediates, now, fs, lastStart,
                 lastCancel, scansStarted, fsChanges>>

\* The final transaction and the finally block.
ScanFinal ==
  /\ pc = "final"
  /\ IF SweepApplies(scan.scanArtistId)
       THEN /\ tracks' = SoftDeleteStale(tracks, scan.seenAt)
            /\ albums' = SoftDeleteStale(albums, scan.seenAt)
            /\ artists' = SoftDeleteStale(artists, scan.seenAt)
            /\ fileIndex' = PruneFileIndex(fileIndex, scan.seenAt)
       ELSE UNCHANGED <<tracks, albums, artists, fileIndex>>
  /\ scanState' = [scanState EXCEPT
       !.status = FinishedStatus(cancelRequested),
       !.scannedFiles = scan.scannedFiles,
       !.scannedAlbums = scan.scannedAlbums,
       !.scannedArtists = Cardinality(scan.artistsSeen),
       !.skippedFiles = scan.skippedFiles,
       !.skippedReasons = scan.skippedReasons,
       !.error = FALSE]
  /\ running' = FALSE
  /\ cancelRequested' = FALSE
  /\ pc' = "idle"
  /\ scan' = NoScan
  /\ UNCHANGED <<immediates, now, fs, scanSkipped, lastStart, lastCancel,
                 scansStarted, fsChanges>>

(***************************************************************************)
(* Metadata client (musicbrainz): scheduleRequest.                         *)
(*                                                                         *)
(* queue = queue.then(callback) chains the callback of a request on the    *)
(* promise of the request before it: the callback runs once that promise   *)
(* is fulfilled; when that promise is rejected the callback never runs and *)
(* the request is rejected with the same error.  A request is "queued"     *)
(* until then, at "gate" during the wait of the rate gate, at "fetch"      *)
(* while an HTTP attempt is outstanding, at "backoff" during the wait      *)
(* before a retry, and "fulfilled" or "rejected" when settled.  The fields *)
(* attempts, scheduledAt, firstStart, attemptStart, receivedAt, settledAt, *)
(* outcome and retryAfter of a request are history.                        *)
(***************************************************************************)
MIN_INTERVAL_MS == 1000
REQUEST_TIMEOUT_MS == 10000
BACKOFF_BASE_MS == 500
TIMEOUT_MAX == 2147483647

MAX_RETRIES == 2

Ticks(ms) == ms \div BACKOFF_BASE_MS

Max(a, b) == IF a >= b THEN a ELSE b

\* wait(ms): setTimeout sets a delay that does not fit into a 32-bit signed
\* integer to 1 ms, which is less than a tick.
TimerDelay(ticks) ==
  IF ticks > TIMEOUT_MAX \div BACKOFF_BASE_MS THEN 0 ELSE ticks

\* 500 * (2 ** attempt)
BackoffTicks(attempt) == Ticks(BACKOFF_BASE_MS * (2 ^ attempt))

\* The Retry-After header as Number() reads it, in seconds; 0 stands for a
\* header that is absent, not finite or not positive.
RetryAfterOptions == {0, 1, 2147484}

\* retryAfterMs
RetryAfterTicks(retryAfter, attempt) ==
  IF retryAfter > 0 THEN retryAfter * Ticks(1000) ELSE BackoffTicks(attempt)

\* How long the upstream takes to answer, below the request timeout.
Latencies == {0, 1}

Outcomes == {"200", "429", "503", "500", "fetch failed", "other error", "AbortError"}

\* pending: the promise the callback is chained on was not settled when
\* scheduleRequest was called.
NewRequest(pending) ==
  [state |-> "queued", attempt |-> 0, attempts |-> 0, wakeAt |-> 0,
   chainedOnPending |-> pending, firstStart |-> -1, attemptStart |-> -1,
   receivedAt |-> -1, settledAt |-> -1, outcome |-> "", retryAfter |-> 0,
   statusCode |-> 0]

Settled(r) == requests[r].state \in {"fulfilled", "rejected"}

\* A callback that does not wait for the promise it is chained on.
QueueReadyUnchained(r) == r \in Range(queue)

\* The callback of request r runs when the promise it is chained on, that
\* of the request scheduled before it, is settled.
QueueReady(r) ==
  /\ queue # <<>>
  /\ r = Head(queue)
  /\ \A q \in 1 .. (r - 1) : Settled(q)

RetriesRemainAlways(attempt) == TRUE

\* attempt < MAX_RETRIES
RetriesRemain(attempt) == attempt < MAX_RETRIES

\* The head of the attempt loop at time at: lastRequestAt = Date.now(); fetch.
StartAttempt(req, attempt, at) ==
  [req EXCEPT !.state = "fetch", !.attempt = attempt, !.attempts = @ + 1,
              !.attemptStart = at,
              !.firstStart = IF @ = -1 THEN at ELSE @]

\* The callback returns or throws: the locals of the attempt loop are gone.
Settle(req, state, at) ==
  [req EXCEPT !.state = state, !.settledAt = at, !.wakeAt = 0,
              !.attemptStart = -1, !.receivedAt = -1, !.retryAfter = 0]

Reject(req, statusCode, at) ==
  [Settle(req, "rejected", at) EXCEPT !.statusCode = statusCode]

\* scheduleRequest(url): chain the callback and return the new promise.
ScheduleRequest ==
  /\ Len(requests) < MaxRequests
  /\ requests' = Append(requests,
       NewRequest(\E q \in DOMAIN requests : ~Settled(q)))
  /\ queue' = Append(queue, Len(requests) + 1)
  /\ UNCHANGED <<lastRequestAt, mbNow>>

\* The callback of request r starts: the rate gate, and with no wait the
\* first attempt.
QueueTurn(r) ==
  /\ QueueReady(r)
  /\ queue' = SelectSeq(queue, LAMBDA q : q # r)
  /\ IF r > 1 /\ requests[r - 1].state = "rejected"
       THEN /\ requests' = [requests EXCEPT
                 ![r] = Reject(@, requests[r - 1].statusCode, mbNow)]
            /\ UNCHANGED lastRequestAt
       ELSE LET waitMs == Max(0, Ticks(MIN_INTERVAL_MS) - (mbNow - lastRequestAt))
            IN IF waitMs > 0
                 THEN /\ requests' = [requests EXCEPT
                           ![r].state = "gate",
                           ![r].wakeAt = mbNow + TimerDelay(waitMs)]
                      /\ UNCHANGED lastRequestAt
                 ELSE /\ requests' = [requests EXCEPT
                           ![r] = StartAttempt(@, 0, mbNow)]
                      /\ lastRequestAt' = mbNow
  /\ UNCHANGED mbNow

\* The timer of the rate gate fires: the first attempt.
GateElapsed(r) ==
  /\ r \in DOMAIN requests
  /\ requests[r].state = "gate"
  /\ mbNow' = Max(mbNow, requests[r].wakeAt)
  /\ requests' = [requests EXCEPT ![r] = StartAttempt(@, 0, mbNow')]
  /\ lastRequestAt' = mbNow'
  /\ UNCHANGED queue

\* The outstanding attempt of request r ends: a response with a status, a
\* network error, or the abort of the request timeout.
Respond(r, outcome, latency, retryAfter) ==
  /\ r \in DOMAIN requests
  /\ requests[r].state = "fetch"
  /\ (outcome = "AbortError") = (latency = Ticks(REQUEST_TIMEOUT_MS))
  /\ retryAfter # 0 => outcome \in {"429", "503"}
  /\ mbNow' = Max(mbNow, requests[r].attemptStart + latency)
  /\ LET req == [requests[r] EXCEPT !.outcome = outcome,
                                    !.retryAfter = retryAfter,
                                    !.receivedAt = mbNow']
         attempt == req.attempt
         backoff(ticks) == [req EXCEPT !.state = "backoff",
                                       !.wakeAt = mbNow' + TimerDelay(ticks)]
     IN requests' = [requests EXCEPT ![r] =
          CASE outcome = "200" ->
                 Settle(req, "fulfilled", mbNow')
            [] outcome \in {"429", "503"} ->
                 IF RetriesRemain(attempt)
                   THEN backoff(RetryAfterTicks(retryAfter, attempt))
                   ELSE Reject(req, IF outcome = "429" THEN 429 ELSE 503, mbNow')
            [] outcome = "500" -> Reject(req, 500, mbNow')
            [] outcome = "fetch failed" ->
                 IF RetriesRemain(attempt)
                   THEN backoff(BackoffTicks(attempt))
                   ELSE Reject(req, 502, mbNow')
            [] outcome = "other error" -> Reject(req, 502, mbNow')
            [] outcome = "AbortError" -> Reject(req, 504, mbNow')]
  /\ UNCHANGED <<queue, lastRequestAt>>

\* The timer before a retry fires: attempt += 1 and the loop test.
RetryElapsed(r) ==
  /\ r \in DOMAIN requests
  /\ requests[r].state = "backoff"
  /\ mbNow' = Max(mbNow, requests[r].wakeAt)
  /\ IF requests[r].attempt + 1 <= MAX_RETRIES
       THEN /\ requests' = [requests EXCEPT
                 ![r] = StartAttempt(@, requests[r].attempt + 1, mbNow')]
            /\ lastRequestAt' = mbNow'
       ELSE /\ requests' = [requests EXCEPT ![r] = Reject(@, 502, mbNow')]
            /\ UNCHANGED lastRequestAt
  /\ UNCHANGED queue

\* Time passes with no request pending, until the rate gate is open.
ClientIdle ==
  /\ Len(requests) < MaxRequests
  /\ \A r \in DOMAIN requests : Settled(r)
  /\ mbNow - lastRequestAt < Ticks(MIN_INTERVAL_MS)
  /\ mbNow' = lastRequestAt + Ticks(MIN_INTERVAL_MS)
  /\ UNCHANGED <<queue, lastRequestAt, requests>>

\* The module as loaded: queue = Promise.resolve(), lastRequestAt = 0, and
\* a clock far from the epoch.
InitClient ==
  /\ queue = <<>>
  /\ lastRequestAt = 0
  /\ requests = <<>>
  /\ mbNow = Ticks(MIN_INTERVAL_MS)

\* ---------------------------------------------------------------------
\* Discography service: syncExpectedForArtist.

\* A release-group without an id is inserted, never upserted.
NoId == ""

\* primary-type and secondary-types as MusicBrainz spells them.
TypeAlbum == <<"A", "l", "b", "u", "m">>
TypeCompilation == <<"C", "o", "m", "p", "i", "l", "a", "t", "i", "o", "n">>
TypeLive == <<"L", "i", "v", "e">>

\* An entry of the list fetchArtistAlbums returns.
ReleaseGroup(id, title, primaryType, secondaryTypes) ==
  [mbReleaseGroupId |-> id, title |-> title, primaryType |-> primaryType,
   secondaryTypes |-> secondaryTypes]

ReleaseGroups ==
  {ReleaseGroup("rg1", <<"A">>, TypeAlbum, <<>>),
   ReleaseGroup("rg2", <<"B">>, TypeAlbum, <<>>),
   ReleaseGroup(NoId, <<"C">>, TypeAlbum, <<>>)}

\* What fetchArtistAlbums returns: up to two tracked release-groups.
UpstreamAnswers ==
  {<<>>} \cup {<<a>> : a \in ReleaseGroups}
         \cup ({<<a, b>> : a, b \in ReleaseGroups}
                 \ {<<a, a>> : a \in ReleaseGroups})

\* SELECT id, name FROM artists WHERE id = ? AND deleted = 0
LibraryArtist(artistId) == artistId \in DOMAIN artists /\ ~artists[artistId].deleted

\* getExpectedArtist(artistId): the id of the row, 0 when there is none.
GetExpectedArtist(artistId) ==
  IF \E e \in DOMAIN expectedArtists : expectedArtists[e].artistId = artistId
    THEN CHOOSE e \in DOMAIN expectedArtists : expectedArtists[e].artistId = artistId
    ELSE 0

\* The loop of the transaction: upsert by (expectedArtistId,
\* mb_release_group_id) when the id is present, otherwise a plain insert.
RECURSIVE UpsertReleases(_, _, _, _, _)
UpsertReleases(rows, seq, expectedArtistId, releases, at) ==
  IF releases = <<>>
    THEN [rows |-> rows, seq |-> seq]
    ELSE LET album == Head(releases)
             conflict == {r \in rows :
                            /\ r.expectedArtistId = expectedArtistId
                            /\ album.mbReleaseGroupId # NoId
                            /\ r.mbReleaseGroupId = album.mbReleaseGroupId}
         IN IF conflict # {}
              THEN UpsertReleases(
                     (rows \ conflict) \cup
                       {[r EXCEPT !.title = album.title,
                                  !.primaryType = album.primaryType,
                                  !.secondaryTypes = album.secondaryTypes,
                                  !.normalizedTitle = normalizeTitle(album.title),
                                  !.updatedAt = at] :
                          r \in conflict},
                     seq, expectedArtistId, Tail(releases), at)
              ELSE UpsertReleases(
                     rows \cup {[id |-> seq + 1,
                                 expectedArtistId |-> expectedArtistId,
                                 mbReleaseGroupId |-> album.mbReleaseGroupId,
                                 title |-> album.title,
                                 primaryType |-> album.primaryType,
                                 secondaryTypes |-> album.secondaryTypes,
                                 normalizedTitle |-> normalizeTitle(album.title),
                                 updatedAt |-> at]},
                     seq + 1, expectedArtistId, Tail(releases), at)

\* DELETE FROM expected_albums WHERE expectedArtistId = ? AND updatedAt < ?
PruneExpected(rows, expectedArtistId, at) ==
  {r \in rows : ~(r.expectedArtistId = expectedArtistId /\ r.updatedAt < at)}

\* The prune statement, run on the table the upserts left.
PruneUpserted(upserted, expectedArtistId, at) ==
  [rows |-> PruneExpected(upserted.rows, expectedArtistId, at),
   seq |-> upserted.seq]

\* tx(): the upserts and the prune in one transaction.
SyncTransaction(rows, seq, expectedArtistId, releases, at) ==
  PruneUpserted(UpsertReleases(rows, seq, expectedArtistId, releases, at),
                expectedArtistId, at)

\* The errors scheduleRequest rejects with: a non-2xx response, with its
\* status and details {url, responseBody}; a network error, 502; the abort
\* of the request timeout, 504; both with details {url, cause}.
UpstreamErrors ==
  {[statusCode |-> st, details |-> {"url", "responseBody"}] : st \in {429, 500, 503}}
    \cup {[statusCode |-> st, details |-> {"url", "cause"}] : st \in {502, 504}}

\* The catch block of POST /api/expected/artist/:artistId/sync:
\* reply.code(status).send({ error, statusCode }).
SyncErrorReply(statusCode) ==
  [code |-> statusCode, body |-> {"error", "statusCode"}]

\* syncExpectedForArtist throws an error of its own (failure says which).
SyncFailed(sync, statusCode) ==
  [sync EXCEPT !.state = "failed", !.statusCode = statusCode,
               !.failure = IF statusCode = 404 THEN "not found"
                           ELSE IF statusCode = 504 THEN "timeout"
                           ELSE "internal",
               !.reply = SyncErrorReply(statusCode)]

\* The catch blocks around the metadata client: the wrapped error keeps
\* the statusCode of the error, 502 when it has none, and its details.
SyncWrapped(sync, error) ==
  [sync EXCEPT !.state = "failed", !.statusCode = error.statusCode,
               !.details = error.details, !.failure = "upstream",
               !.reply = SyncErrorReply(error.statusCode)]

Pending(i) == i \in Range(upstream)

\* syncExpectedForArtist(artistId) up to its first await: now = Date.now(),
\* and when the MBID is known the update of expected_artists and the call
\* of fetchArtistAlbums.
SyncStart(artistId) ==
  /\ Len(syncs) < MaxSyncs
  /\ LET expectedArtist == GetExpectedArtist(artistId)
         sync == [artistId |-> artistId, now |-> syncNow,
                  expectedArtistId |-> expectedArtist, state |-> "lookup",
                  statusCode |-> 0, albums |-> <<>>, details |-> {},
                  failure |-> "", reply |-> [code |-> 0, body |-> {}]]
     IN IF ~LibraryArtist(artistId)
          THEN /\ syncs' = Append(syncs, SyncFailed(sync, 404))
               /\ UNCHANGED <<expectedArtists, upstream>>
          ELSE /\ upstream' = Append(upstream, Len(syncs) + 1)
               /\ IF expectedArtist # 0
                    THEN /\ syncs' = Append(syncs, [sync EXCEPT !.state = "fetch"])
                         /\ expectedArtists' = [expectedArtists EXCEPT
                              ![expectedArtist].updatedAt = syncNow]
                    ELSE /\ syncs' = Append(syncs, sync)
                         /\ UNCHANGED expectedArtists
  /\ UNCHANGED <<expectedAlbums, expectedAlbumSeq, upstreamRejected, syncNow>>

\* findArtistByName answers: no artist, or an artist whose row is inserted
\* into expected_artists (artistId is unique there) before
\* fetchArtistAlbums is called.
SyncLookupAnswer(found) ==
  /\ upstream # <<>>
  /\ ~upstreamRejected
  /\ LET i == Head(upstream) IN
       /\ syncs[i].state = "lookup"
       /\ syncs[i].now < syncNow
       /\ IF ~found
            THEN /\ syncs' = [syncs EXCEPT ![i] = SyncFailed(@, 404)]
                 /\ upstream' = Tail(upstream)
                 /\ UNCHANGED expectedArtists
            ELSE IF GetExpectedArtist(syncs[i].artistId) # 0
              THEN /\ syncs' = [syncs EXCEPT ![i] = SyncFailed(@, 500)]
                   /\ upstream' = Tail(upstream)
                   /\ UNCHANGED expectedArtists
              ELSE /\ expectedArtists' = Append(expectedArtists,
                        [artistId |-> syncs[i].artistId,
                         updatedAt |-> syncs[i].now])
                   /\ syncs' = [syncs EXCEPT
                        ![i].state = "fetch",
                        ![i].expectedArtistId = Len(expectedArtists) + 1]
                   /\ upstream' = Append(Tail(upstream), i)
  /\ UNCHANGED <<expectedAlbums, expectedAlbumSeq, upstreamRejected, syncNow>>

\* The rows of expected_albums that wishlist_albums or
\* album_match_overrides refer to by a FOREIGN KEY.
ReferencedExpected ==
  wishlist \cup {o.expectedAlbumId : o \in overrides}

\* Whether the DELETE of the transaction is refused: a build of SQLite
\* that enforces foreign keys refuses to delete a row that is referred to,
\* one that does not enforce them deletes it; initDb sets no pragma.
ForeignKeyModes(rows) ==
  {FALSE} \cup (IF \E r \in expectedAlbums :
                      /\ r.id \in ReferencedExpected
                      /\ ~\E kept \in rows : kept.id = r.id
                  THEN {TRUE} ELSE {})

\* fetchArtistAlbums answers: the transaction, and the sync has succeeded;
\* or the transaction is rolled back, and the sync fails on the error of
\* the database.
SyncFetchAnswer(releases) ==
  /\ upstream # <<>>
  /\ ~upstreamRejected
  /\ syncs[Head(upstream)].state = "fetch"
  /\ syncs[Head(upstream)].now < syncNow
  /\ \E tx \in {SyncTransaction(expectedAlbums, expectedAlbumSeq,
                                 syncs[Head(upstream)].expectedArtistId,
                                 releases, syncs[Head(upstream)].now)} :
     \E enforced \in ForeignKeyModes(tx.rows) :
       IF enforced
         THEN /\ syncs' = [syncs EXCEPT ![Head(upstream)] = SyncFailed(@, 500)]
              /\ UNCHANGED <<expectedAlbums, expectedAlbumSeq>>
         ELSE /\ expectedAlbums' = tx.rows
              /\ expectedAlbumSeq' = tx.seq
              /\ syncs' = [syncs EXCEPT
                   ![Head(upstream)].state = "done",
                   ![Head(upstream)].albums = releases,
                   ![Head(upstream)].reply = [code |-> 200, body |-> {"summary"}]]
  /\ upstream' = Tail(upstream)
  /\ UNCHANGED <<expectedArtists, upstreamRejected, syncNow>>

\* The request of the sync at the head of the queue is rejected, or was
\* chained on a rejected one: the sync fails with the status of the error.
SyncUpstreamError(error) ==
  /\ upstream # <<>>
  /\ syncs[Head(upstream)].now < syncNow
  /\ syncs' = [syncs EXCEPT ![Head(upstream)] = SyncWrapped(@, error)]
  /\ upstream' = Tail(upstream)
  /\ upstreamRejected' = TRUE
  /\ UNCHANGED <<expectedArtists, expectedAlbums, expectedAlbumSeq, syncNow>>

\* withTimeout: the lookup a sync waits for takes more than 15 s.
SyncTimeout(i) ==
  /\ Pending(i)
  /\ syncs[i].now < syncNow
  /\ syncs' = [syncs EXCEPT ![i] = SyncFailed(@, 504)]
  /\ upstream' = SelectSeq(upstream, LAMBDA j : j # i)
  /\ UNCHANGED <<expectedArtists, expectedAlbums, expectedAlbumSeq,
                 upstreamRejected, syncNow>>

\* A millisecond passes.
SyncClock ==
  /\ syncNow <= MaxSyncs
  /\ syncNow' = syncNow + 1
  /\ UNCHANGED <<expectedArtists, expectedAlbums, expectedAlbumSeq, syncs,
                 upstream, upstreamRejected>>

InitSync ==
  /\ expectedArtists = <<>>
  /\ expectedAlbums = {}
  /\ expectedAlbumSeq = 0
  /\ syncs = <<>>
  /\ upstream = <<>>
  /\ upstreamRejected = FALSE
  /\ syncNow = 1

\* ---------------------------------------------------------------------
\* Callers of the normalizer.

\* The titles a caller passes: up to MaxTitlePieces of these pieces in a row.
TitlePieces ==
  {<<"A", "b">>, <<"L", "i", "v", "e">>, <<"1", "9", "9", "8">>, <<" ">>, <<"(">>, <<")">>, <<"-">>, <<"&">>}

RECURSIVE TitlesOf(_)
TitlesOf(n) ==
  IF n = 0 THEN {<<>>}
  ELSE LET shorter == TitlesOf(n - 1)
       IN shorter \cup {t \o piece : t \in shorter, piece \in TitlePieces}

Titles == TitlesOf(MaxTitlePieces)

Years == {<<"1", "9", "9", "8">>, <<"2", "0", "0", "2">>}

\* 'T (Y)', 'T [Y]', 'T - Y' and 'T Y'
YearForms == {"paren", "bracket", "dash", "bare"}

WithYear(title, form, year) ==
  CASE form = "paren" -> title \o <<" ", "(">> \o year \o <<")">>
    [] form = "bracket" -> title \o <<" ", "[">> \o year \o <<"]">>
    [] form = "dash" -> title \o <<" ", "-", " ">> \o year
    [] form = "bare" -> title \o <<" ">> \o year

NoCall == [pc |-> "idle", title |-> <<>>, form |-> "", input |-> <<>>,
           output |-> <<>>]

\* normalizeTitle(t)
NormalizeCall(t) ==
  /\ norm.pc = "idle"
  /\ norm' = [NoCall EXCEPT !.pc = "normalized", !.title = t, !.input = t,
                            !.output = normalizeTitle(t)]

\* normalizeTitle applied to the title normalizeTitle returned.
NormalizeAgain ==
  /\ norm.pc = "normalized"
  /\ norm' = [norm EXCEPT !.pc = "renormalized", !.input = norm.output,
                          !.output = normalizeTitle(norm.output)]

\* normalizeTitle of the title t with a year suffix.
NormalizeYearCall(t, form, year) ==
  /\ norm.pc = "idle"
  /\ norm' = [NoCall EXCEPT !.pc = "year", !.title = t, !.form = form,
                            !.input = WithYear(t, form, year),
                            !.output = normalizeTitle(WithYear(t, form, year))]

\* The caller has its result.
NormalizeReturn ==
  /\ norm.pc # "idle"
  /\ norm' = NoCall

InitNorm == norm = NoCall


\* ---------------------------------------------------------------------
\* The discography summary.

\* getArtistSettings(artistId): both flags false when there is no row.
GetArtistSettings(tbl, artistId) ==
  IF artistId \in DOMAIN tbl
    THEN [includeLive |-> tbl[artistId].includeLive,
          includeCompilations |-> tbl[artistId].includeCompilations]
    ELSE [includeLive |-> FALSE, includeCompilations |-> FALSE]

COMPILATION == LowerCase(TypeCompilation)

\* A filter that lets every release through.
ShouldIncludeAlbumAlways(expectedAlbum, st) == TRUE

shouldIncludeAlbum(expectedAlbum, st) ==
  LET primaryType == LowerCase(expectedAlbum.primaryType)
      secondaryTypes == [i \in DOMAIN expectedAlbum.secondaryTypes |->
                           LowerCase(expectedAlbum.secondaryTypes[i])]
  IN IF ~st.includeCompilations /\ primaryType = COMPILATION THEN FALSE
     ELSE IF ~st.includeLive /\ LIVE \in Range(secondaryTypes) THEN FALSE
     ELSE TRUE

\* Math.round(matchedCount / expectedCount * 100)
RoundPct(matchedCount, expectedCount) ==
  (200 * matchedCount + expectedCount) \div (2 * expectedCount)

\* completionPct: null
NoPct == -1

\* The database as computeSummary reads it.
Db ==
  [artists |-> artists, albums |-> albums, expectedArtists |-> expectedArtists,
   expectedAlbums |-> expectedAlbums, ignored |-> ignored,
   overrides |-> overrides, settings |-> settings]

\* SELECT id, name FROM artists WHERE id = ? AND deleted = 0
ArtistRow(db, artistId) ==
  artistId \in DOMAIN db.artists /\ ~db.artists[artistId].deleted

\* The expected albums of the artist: expected_albums joined with
\* expected_artists on artistId.
ExpectedAlbumsOf(db, artistId) ==
  {r \in db.expectedAlbums :
     /\ r.expectedArtistId \in DOMAIN db.expectedArtists
     /\ db.expectedArtists[r.expectedArtistId].artistId = artistId}

\* SELECT id, title FROM albums WHERE artistId = ? AND deleted = 0 AND owned = 1
OwnedAlbumsOf(db, artistId) ==
  {a \in DOMAIN db.albums :
     /\ db.albums[a].artistId = artistId
     /\ ~db.albums[a].deleted
     /\ db.albums[a].owned}

\* overrideMap.get(expected.id): the ownedAlbumId of the override rows of the
\* expected album; Boolean(overrideOwnedId) holds when there is one.
OverrideOwnedIds(db, expected) ==
  {o.ownedAlbumId : o \in {x \in db.overrides : x.expectedAlbumId = expected.id}}

\* hasMatch
HasMatch(db, artistId, expected) ==
  LET owned == OwnedAlbumsOf(db, artistId)
      normalizedMatches ==
        {a \in owned : normalizeTitle(db.albums[a].title) = expected.normalizedTitle}
      hasStrongAliasMatch ==
        \E a \in owned :
          isStrongTitleAliasMatch(normalizeTitle(db.albums[a].title),
                                  expected.normalizedTitle)
  IN OverrideOwnedIds(db, expected) # {} \/ normalizedMatches # {} \/ hasStrongAliasMatch

\* The reply of a request that is not a summary.
NoSummary ==
  [ownedCount |-> 0, expectedCount |-> 0, missingCount |-> 0, ignoredCount |-> 0,
   completionPct |-> NoPct, missingAlbums |-> {}, matched |-> {}]

\* computeSummary(artistId) for an artist that exists.  missingAlbums holds
\* the ids of the list; matched, the expected albums the loop counted in
\* matchedCount.
ComputeSummary(db, artistId) ==
  LET st == GetArtistSettings(db.settings, artistId)
      ignoredIds == {i.expectedAlbumId : i \in {x \in db.ignored : x.artistId = artistId}}
      expectedRows == ExpectedAlbumsOf(db, artistId)
      matched == {e \in expectedRows : HasMatch(db, artistId, e)}
      missingAlbums == {e \in expectedRows \ matched :
                          e.id \notin ignoredIds /\ shouldIncludeAlbum(e, st)}
      expectedCount == Cardinality(expectedRows)
  IN [ownedCount |-> Cardinality(OwnedAlbumsOf(db, artistId)),
      expectedCount |-> expectedCount,
      missingCount |-> Cardinality(missingAlbums),
      ignoredCount |-> Cardinality(ignoredIds),
      completionPct |-> IF expectedCount = 0 THEN NoPct
                        ELSE RoundPct(Cardinality(matched), expectedCount),
      missingAlbums |-> {e.id : e \in missingAlbums},
      matched |-> {e.id : e \in matched}]

\* An INSERT that replaces the table by the new row.
InsertIgnoredAlone(tbl, artistId, expectedAlbumId) ==
  {[artistId |-> artistId, expectedAlbumId |-> expectedAlbumId]}

\* INSERT INTO expected_ignored ... ON CONFLICT(artistId, expectedAlbumId)
\* DO NOTHING
InsertIgnored(tbl, artistId, expectedAlbumId) ==
  tbl \cup {[artistId |-> artistId, expectedAlbumId |-> expectedAlbumId]}

\* The album is an expected album of the artist.
ExpectedAlbumOfArtist(db, artistId, expectedAlbumId) ==
  \E r \in ExpectedAlbumsOf(db, artistId) : r.id = expectedAlbumId

\* ignoreExpectedAlbum(artistId, expectedAlbumId): the status of the reply
\* and the table expected_ignored it leaves.
IgnoreExpectedAlbum(db, artistId, expectedAlbumId) ==
  IF ~ArtistRow(db, artistId) \/ ~ExpectedAlbumOfArtist(db, artistId, expectedAlbumId)
    THEN [status |-> 404, ignored |-> db.ignored]
    ELSE [status |-> 200,
          ignored |-> InsertIgnored(db.ignored, artistId, expectedAlbumId)]

\* unignoreExpectedAlbum(artistId, expectedAlbumId): the same checks, then
\* the delete of the row of the pair.
UnignoreExpectedAlbum(db, artistId, expectedAlbumId) ==
  IF ~ArtistRow(db, artistId) \/ ~ExpectedAlbumOfArtist(db, artistId, expectedAlbumId)
    THEN [status |-> 404, ignored |-> db.ignored]
    ELSE [status |-> 200,
          ignored |-> db.ignored \ {[artistId |-> artistId,
                                     expectedAlbumId |-> expectedAlbumId]}]

\* No request of the expected-albums API made yet.
NoRequest ==
  [op |-> "none", artistId |-> 0, expectedAlbumId |-> 0, status |-> 0,
   summary |-> NoSummary]

\* POST /api/expected/artist/:artistId/ignore
IgnoreCall(artistId, expectedAlbumId) ==
  LET r == IgnoreExpectedAlbum(Db, artistId, expectedAlbumId)
  IN /\ LoopIdle
     /\ ignored' = r.ignored
     /\ call' = [NoRequest EXCEPT !.op = "ignore", !.artistId = artistId,
                                  !.expectedAlbumId = expectedAlbumId,
                                  !.status = r.status]
     /\ UNCHANGED <<overrides, settings, wishlist>>

\* POST /api/expected/artist/:artistId/unignore
UnignoreCall(artistId, expectedAlbumId) ==
  LET r == UnignoreExpectedAlbum(Db, artistId, expectedAlbumId)
  IN /\ LoopIdle
     /\ ignored' = r.ignored
     /\ call' = [NoRequest EXCEPT !.op = "unignore", !.artistId = artistId,
                                  !.expectedAlbumId = expectedAlbumId,
                                  !.status = r.status]
     /\ UNCHANGED <<overrides, settings, wishlist>>

\* POST and PUT /api/expected/artist/:artistId/settings with both flags in
\* the body: updateArtistSettings upserts the row of an artist that exists.
SettingsCall(artistId, includeLive, includeCompilations) ==
  /\ LoopIdle
  /\ IF ArtistRow(Db, artistId)
       THEN /\ settings' = Put(settings, artistId,
                               [includeLive |-> includeLive,
                                includeCompilations |-> includeCompilations])
            /\ call' = [NoRequest EXCEPT !.op = "settings", !.artistId = artistId,
                                         !.status = 200]
       ELSE /\ settings' = settings
            /\ call' = [NoRequest EXCEPT !.op = "settings", !.artistId = artistId,
                                         !.status = 404]
  /\ UNCHANGED <<ignored, overrides, wishlist>>

\* GET /api/expected/artist/:artistId/summary
SummaryCall(artistId) ==
  /\ LoopIdle
  /\ call' = IF ArtistRow(Db, artistId)
               THEN [NoRequest EXCEPT !.op = "summary", !.artistId = artistId,
                                      !.status = 200,
                                      !.summary = ComputeSummary(Db, artistId)]
               ELSE [NoRequest EXCEPT !.op = "summary", !.artistId = artistId,
                                      !.status = 404]
  /\ UNCHANGED <<ignored, overrides, settings, wishlist>>

\* The user maps an expected album to an album of the library: a row of
\* album_match_overrides, expectedAlbumId UNIQUE and ownedAlbumId UNIQUE,
\* both referring to existing rows.
AddOverride(expectedAlbumId, ownedAlbumId) ==
  /\ LoopIdle
  /\ \E r \in expectedAlbums : r.id = expectedAlbumId
  /\ ownedAlbumId \in DOMAIN albums
  /\ \A o \in overrides :
       o.expectedAlbumId # expectedAlbumId /\ o.ownedAlbumId # ownedAlbumId
  /\ overrides' = overrides \cup {[expectedAlbumId |-> expectedAlbumId,
                                   ownedAlbumId |-> ownedAlbumId]}
  /\ call' = [NoRequest EXCEPT !.op = "override",
                               !.expectedAlbumId = expectedAlbumId,
                               !.status = 200]
  /\ UNCHANGED <<ignored, settings, wishlist>>

\* The newest expected album of the artist with the title, compared in
\* lower case (year is null): SELECT ea.id ... ORDER BY ea.id DESC LIMIT 1;
\* 0 when there is none.
FindExpectedByTitle(db, artistId, title) ==
  LET found == {r.id : r \in {x \in ExpectedAlbumsOf(db, artistId) :
                                LowerCase(x.title) = LowerCase(title)}}
  IN IF found = {} THEN 0
     ELSE CHOOSE id \in found : \A other \in found : other <= id

\* INSERT INTO wishlist_albums ... ON CONFLICT(expectedAlbumId) DO NOTHING
InsertWishlist(tbl, expectedAlbumId) == tbl \cup {expectedAlbumId}

\* POST /api/wishlist with a body that names the album by expectedAlbumId,
\* or (expectedAlbumId below 1) by artistId and title with source
\* "musicbrainz" and no year: the status of the reply and the table
\* wishlist_albums it leaves.
WishlistAdd(db, tbl, expectedAlbumId, artistId, title) ==
  LET byTitle == expectedAlbumId < 1
      id == IF byTitle THEN FindExpectedByTitle(db, artistId, title)
            ELSE expectedAlbumId
  IN IF byTitle /\ (artistId < 1 \/ title = <<>>)
       THEN [status |-> 400, wishlist |-> tbl]
     ELSE IF id = 0 \/ ~\E r \in db.expectedAlbums : r.id = id
       THEN [status |-> 404, wishlist |-> tbl]
     ELSE [status |-> 200, wishlist |-> InsertWishlist(tbl, id)]

WishlistCall(expectedAlbumId, artistId, title) ==
  LET r == WishlistAdd(Db, wishlist, expectedAlbumId, artistId, title)
  IN /\ LoopIdle
     /\ wishlist' = r.wishlist
     /\ call' = [NoRequest EXCEPT !.op = "wishlist", !.artistId = artistId,
                                  !.expectedAlbumId = expectedAlbumId,
                                  !.status = r.status]
     /\ UNCHANGED <<ignored, overrides, settings>>

InitSummary ==
  /\ ignored = {}
  /\ overrides = {}
  /\ settings = <<>>
  /\ call = NoRequest
  /\ wishlist = {}

(***************************************************************************)
(* Library Walker: collectArtistTracks on a directory tree.                *)
(***************************************************************************)
\* artistPath, the directory the walk starts from.
ArtistPath == 0

\* The entries below artistPath, in the order readdirSync lists them: the
\* directory an entry is in, what stat says it is, and the extension of its
\* name.  Entries 1, 4, 7 and 9 are directories nested in one another.
TreeNodes ==
  <<[parent |-> 0, kind |-> "dir", ext |-> ""],
    [parent |-> 0, kind |-> "file", ext |-> "mp3"],
    [parent |-> 0, kind |-> "other", ext |-> ""],
    [parent |-> 1, kind |-> "dir", ext |-> ""],
    [parent |-> 1, kind |-> "file", ext |-> "flac"],
    [parent |-> 1, kind |-> "file", ext |-> "jpg"],
    [parent |-> 4, kind |-> "dir", ext |-> ""],
    [parent |-> 4, kind |-> "file", ext |-> "mp3"],
    [parent |-> 7, kind |-> "dir", ext |-> ""],
    [parent |-> 7, kind |-> "file", ext |-> "mp3"],
    [parent |-> 9, kind |-> "file", ext |-> "mp3"]>>

DirNodes == {n \in DOMAIN TreeNodes : TreeNodes[n].kind = "dir"}

\* What can be wrong with one entry of the tree: its name starts with a
\* dot, lstat fails on it, it is a symlink whose target is gone, or it is a
\* directory that cannot be listed.
NoFault == [node |-> ArtistPath, kind |-> "none"]

WalkFaults ==
  {NoFault}
    \cup {[node |-> n, kind |-> k] :
            n \in DOMAIN TreeNodes, k \in {"hidden", "lstat", "broken-symlink"}}
    \cup {[node |-> n, kind |-> "readdir"] : n \in DirNodes \cup {ArtistPath}}

Faulty(w, n, kind) == w.fault = [node |-> n, kind |-> kind]

\* fs.readdirSync(currentPath, { withFileTypes: true })
ReadDir(currentPath) ==
  SetToSeq({n \in DOMAIN TreeNodes : TreeNodes[n].parent = currentPath})

\* onSkip?.(fullPath, reason)
OnSkip(w, fullPath, reason, maxDepth) ==
  [w EXCEPT !.skips = Append(@, [filePath |-> fullPath, reason |-> reason,
                                 maxDepth |-> maxDepth])]

\* A walker that descends one level further than maxDepth.
DepthExceededLate(depth, maxDepth) == depth > maxDepth

\* if (depth + 1 > maxDepth)
DepthExceeded(depth, maxDepth) == depth + 1 > maxDepth

\* The body of the loop over the entries of a directory at depth depth.
WalkEntry(w, entry, depth) ==
  IF Faulty(w, entry, "hidden") THEN OnSkip(w, entry, "hidden-path", 0)
  ELSE IF Faulty(w, entry, "lstat") THEN OnSkip(w, entry, "unreadable-path", 0)
  ELSE IF Faulty(w, entry, "broken-symlink")
    THEN OnSkip(w, entry, "broken-symlink", 0)
  ELSE IF TreeNodes[entry].kind = "dir"
    THEN IF ~w.recursive /\ depth >= 0 THEN w
         ELSE IF DepthExceeded(depth, w.maxDepth)
           THEN OnSkip(w, entry, "depth-exceeded", w.maxDepth)
         ELSE [w EXCEPT !.stack = Append(@, [currentPath |-> entry,
                                             depth |-> depth + 1])]
  ELSE IF TreeNodes[entry].kind # "file"
    THEN OnSkip(w, entry, "unsupported-file-type", 0)
  ELSE IF TreeNodes[entry].ext \notin AUDIO_EXTS
    THEN OnSkip(w, entry, "unsupported-extension", 0)
  ELSE [w EXCEPT !.out = Append(@, entry)]

RECURSIVE WalkDirEntries(_, _, _)
\* for (const entry of entries)
WalkDirEntries(w, entries, depth) ==
  IF entries = <<>> THEN w
  ELSE WalkDirEntries(WalkEntry(w, Head(entries), depth), Tail(entries), depth)

NoWalk ==
  [pc |-> "idle", recursive |-> TRUE, maxDepth |-> 0, fault |-> NoFault,
   stack |-> <<>>, out |-> <<>>, skips |-> <<>>]

\* collectArtistTracks(artistPath, { recursive, maxDepth }, onSkip) is
\* called on a tree with the given fault.
WalkCall(recursive, maxDepth, fault) ==
  /\ walk.pc \in {"idle", "returned"}
  /\ walk' = [NoWalk EXCEPT !.pc = "walking", !.recursive = recursive,
                            !.maxDepth = maxDepth, !.fault = fault,
                            !.stack = <<[currentPath |-> ArtistPath,
                                         depth |-> 0]>>]

\* One turn of while (stack.length > 0): pop a directory, list it, and go
\* through its entries.
WalkDirectory ==
  /\ walk.pc = "walking"
  /\ walk.stack # <<>>
  /\ walk' = WalkDirEntries(
               IF Faulty(walk, walk.stack[Len(walk.stack)].currentPath, "readdir")
                 THEN OnSkip([walk EXCEPT !.stack = SubSeq(@, 1, Len(@) - 1)],
                             walk.stack[Len(walk.stack)].currentPath,
                             "unreadable-directory", 0)
                 ELSE [walk EXCEPT !.stack = SubSeq(@, 1, Len(@) - 1)],
               IF Faulty(walk, walk.stack[Len(walk.stack)].currentPath, "readdir")
                 THEN <<>>
                 ELSE ReadDir(walk.stack[Len(walk.stack)].currentPath),
               walk.stack[Len(walk.stack)].depth)

\* return out
WalkReturn ==
  /\ walk.pc = "walking"
  /\ walk.stack = <<>>
  /\ walk' = [walk EXCEPT !.pc = "returned"]

InitWalk == walk = NoWalk

Init ==
  /\ running = FALSE
  /\ cancelRequested = FALSE
  /\ immediates = <<>>
  /\ pc = "idle"
  /\ scan = NoScan
  /\ now = 0
  /\ fs = [exists |-> TRUE, dirs |-> DirIds, files |-> FileIds, failedReads |-> 0]
  /\ artists = <<>>
  /\ albums = <<>>
  /\ tracks = <<>>
  /\ fileIndex = <<>>
  /\ scanSkipped = <<>>
  /\ scanState = InitialScanState
  /\ lastStart = [called |-> FALSE, started |-> FALSE, inFlight |-> FALSE,
                  status |-> InitialScanState]
  /\ lastCancel = [called |-> FALSE, result |-> FALSE, inFlight |-> FALSE,
                   scanNo |-> 0]
  /\ scansStarted = 0
  /\ fsChanges = 0
  /\ InitClient
  /\ InitSync
  /\ InitNorm
  /\ InitSummary
  /\ InitWalk

Next ==
  \/ \E a \in ArtistIdOptions :
       StartScan(a) /\ UNCHANGED outsideScanner
  \/ RequestCancel /\ UNCHANGED outsideScanner
  \/ Rebuild /\ UNCHANGED outsideScanner
  \/ FsChange /\ UNCHANGED outsideScanner
  \/ RunScanBegin /\ UNCHANGED outsideScanner
  \/ ScanSetup /\ UNCHANGED outsideScanner
  \/ ScanArtist /\ UNCHANGED outsideScanner
  \/ ScanTrack /\ UNCHANGED outsideScanner
  \/ ScanAdmit /\ UNCHANGED outsideScanner
  \/ ScanAlbums /\ UNCHANGED outsideScanner
  \/ ScanFinal /\ UNCHANGED outsideScanner

Spec == Init /\ [][Next]_vars

(***************************************************************************)
(* A process started over a persisted library.  The database outlives the  *)
(* process: PersistedLibrary is the database a full scan of the whole      *)
(* library at time 1 leaves behind, and the library on disk may have lost  *)
(* an artist directory while the process was down.  The requests of this   *)
(* specification are scan starts, changes of the disk and the handler of   *)
(* PUT /api/library/albums/:id/owned; cancellation and rebuild are         *)
(* exercised in Spec.                                                      *)
(***************************************************************************)
PersistedAlbumPath == CreateVirtualAlbumPath(Fo, Fo \o <<"-">> \o <<"W">>)

PersistedLibrary ==
  LET a1 == UpsertArtist(<<>>, Fo, 1)
      a2 == UpsertArtist(a1.artists, FoApos, 1)
      db == SyncAlbum([albums |-> <<>>, tracks |-> <<>>], a1.id,
                      [title |-> <<"W">>, albumPath |-> PersistedAlbumPath,
                       tracks |-> <<1, 4>>], 1)
      f1 == BuildTrackMetadata(<<>>, 1, Fo, 1, TRUE).fileIndex
      f2 == BuildTrackMetadata(f1, 2, Fo, 1, TRUE).fileIndex
      f4 == BuildTrackMetadata(f2, 4, Fo, 1, TRUE).fileIndex
      f3 == BuildTrackMetadata(f4, 3, FoApos, 1, TRUE).fileIndex
      f6 == BuildTrackMetadata(f3, 6, FoApos, 1, TRUE).fileIndex
      s1 == PushSkip(PushSkip(<<>>, 5, "unsupported-extension"), 2, "deduped")
      s2 == PushSkip(PushSkip(<<>>, 3, "deduped"), 6, "missing-album-tag")
  IN [artists |-> a2.artists, albums |-> db.albums, tracks |-> db.tracks,
      fileIndex |-> f6,
      scanSkipped |-> RecordSkipped(RecordSkipped(<<>>, 1, s1), 1, s2),
      scanState |-> [status |-> "idle", startedAt |-> 1,
                     scannedFiles |-> 2, scannedAlbums |-> 1,
                     scannedArtists |-> 2, skippedFiles |-> 4,
                     skippedReasons |-> CountReasons(NoReasons, s1 \o s2),
                     error |-> FALSE]]

\* PUT /api/library/albums/:id/owned with a boolean body: the UPDATE changes
\* a row that is not deleted; otherwise the answer is 404 and nothing changes.
SetOwned(albumId, owned) ==
  /\ LoopIdle
  /\ albumId \in DOMAIN albums
  /\ albums' = IF albums[albumId].deleted THEN albums
               ELSE [albums EXCEPT ![albumId].owned = owned]
  /\ UNCHANGED <<running, cancelRequested, immediates, pc, scan, now, fs, artists,
                 tracks, fileIndex, scanSkipped, scanState, lastStart, lastCancel,
                 scansStarted, fsChanges>>

InitPersistedScanner ==
  /\ running = FALSE
  /\ cancelRequested = FALSE
  /\ immediates = <<>>
  /\ pc = "idle"
  /\ scan = NoScan
  /\ now = 1
  /\ \E dirs \in {DirIds, {2}} :
       fs = [exists |-> TRUE, dirs |-> dirs, files |-> FileIds, failedReads |-> 0]
  /\ artists = PersistedLibrary.artists
  /\ albums = PersistedLibrary.albums
  /\ tracks = PersistedLibrary.tracks
  /\ fileIndex = PersistedLibrary.fileIndex
  /\ scanSkipped = PersistedLibrary.scanSkipped
  /\ scanState = PersistedLibrary.scanState
  /\ lastStart = [called |-> FALSE, started |-> FALSE, inFlight |-> FALSE,
                  status |-> PersistedLibrary.scanState]
  /\ lastCancel = [called |-> FALSE, result |-> FALSE, inFlight |-> FALSE,
                   scanNo |-> 0]
  /\ scansStarted = 0
  /\ fsChanges = 0

InitOwned ==
  /\ InitPersistedScanner
  /\ InitClient
  /\ InitSync
  /\ InitNorm
  /\ InitSummary
  /\ InitWalk

\* A full scan, or a scan of the artist of the persisted album.
OwnedArtistIdOptions == {0, UpsertArtist(PersistedLibrary.artists, Fo, 1).id}

NextOwned ==
  \/ \E a \in OwnedArtistIdOptions :
       StartScan(a) /\ UNCHANGED outsideScanner
  \/ \E albumId \in DOMAIN albums, owned \in BOOLEAN :
       SetOwned(albumId, owned) /\ UNCHANGED outsideScanner
  \/ FsChange /\ UNCHANGED outsideScanner
  \/ RunScanBegin /\ UNCHANGED outsideScanner
  \/ ScanSetup /\ UNCHANGED outsideScanner
  \/ ScanArtist /\ UNCHANGED outsideScanner
  \/ ScanTrack /\ UNCHANGED outsideScanner
  \/ ScanAdmit /\ UNCHANGED outsideScanner
  \/ ScanAlbums /\ UNCHANGED outsideScanner
  \/ ScanFinal /\ UNCHANGED outsideScanner

SpecOwned == InitOwned /\ [][NextOwned]_vars

NextClient ==
  \/ ScheduleRequest /\ UNCHANGED outsideClient
  \/ \E r \in 1 .. MaxRequests : QueueTurn(r) /\ UNCHANGED outsideClient
  \/ \E r \in 1 .. MaxRequests : GateElapsed(r) /\ UNCHANGED outsideClient
  \/ \E r \in 1 .. MaxRequests, outcome \in Outcomes,
        latency \in Latencies \cup {Ticks(REQUEST_TIMEOUT_MS)},
        retryAfter \in RetryAfterOptions :
       Respond(r, outcome, latency, retryAfter) /\ UNCHANGED outsideClient
  \/ \E r \in 1 .. MaxRequests : RetryElapsed(r) /\ UNCHANGED outsideClient
  \/ ClientIdle /\ UNCHANGED outsideClient

SpecClient == Init /\ [][NextClient]_vars

\* An artist of the library, and an id no artist has.
SyncArtistIdOptions == {1, Len(PersistedLibrary.artists) + 1}

NextSync ==
  \/ \E a \in SyncArtistIdOptions : SyncStart(a) /\ UNCHANGED outsideSync
  \/ \E found \in BOOLEAN : SyncLookupAnswer(found) /\ UNCHANGED outsideSync
  \/ \E releases \in UpstreamAnswers :
       SyncFetchAnswer(releases) /\ UNCHANGED outsideSync
  \/ \E error \in UpstreamErrors :
       SyncUpstreamError(error) /\ UNCHANGED outsideSync
  \/ \E i \in 1 .. MaxSyncs : SyncTimeout(i) /\ UNCHANGED outsideSync
  \/ SyncClock /\ UNCHANGED outsideSync

\* expected_artists and expected_albums as a first sync of the artist that
\* returned two release-groups leaves them.
PersistedExpected ==
  [expectedArtists |-> <<[artistId |-> 1, updatedAt |-> 1]>>,
   tx |-> SyncTransaction({}, 0, 1,
            <<ReleaseGroup("rg1", <<"A">>, TypeAlbum, <<>>),
              ReleaseGroup("rg2", <<"B">>, TypeAlbum, <<>>)>>, 1),
   syncNow |-> 2]

\* No sync made yet.
NeverSynced ==
  [expectedArtists |-> <<>>, tx |-> [rows |-> {}, seq |-> 0], syncNow |-> 1]

\* The server starts on the persisted library, with no sync made yet or
\* after the first sync of the artist.
InitSynced ==
  /\ InitPersistedScanner
  /\ InitClient
  /\ InitNorm
  /\ InitSummary
  /\ InitWalk
  /\ syncs = <<>>
  /\ upstream = <<>>
  /\ upstreamRejected = FALSE
  /\ \E persisted \in {NeverSynced, PersistedExpected} :
       /\ expectedArtists = persisted.expectedArtists
       /\ expectedAlbums = persisted.tx.rows
       /\ expectedAlbumSeq = persisted.tx.seq
       /\ syncNow = persisted.syncNow

SpecSync == InitSynced /\ [][NextSync]_vars

NextNorm ==
  \/ \E t \in Titles : NormalizeCall(t) /\ UNCHANGED outsideNorm
  \/ NormalizeAgain /\ UNCHANGED outsideNorm
  \/ \E t \in Titles, form \in YearForms, year \in Years :
       NormalizeYearCall(t, form, year) /\ UNCHANGED outsideNorm
  \/ NormalizeReturn /\ UNCHANGED outsideNorm

SpecNorm == Init /\ [][NextNorm]_vars

\* ---------------------------------------------------------------------
\* The summary of an artist who owns two albums, against four or five
\* expected albums.
SticksAndStones == <<"S", "t", "i", "c", "k", "s", " ", "a", "n", "d", " ", "S", "t", "o", "n", "e", "s">>
SticksAmpStones == <<"S", "t", "i", "c", "k", "s", " ", "&", " ", "S", "t", "o", "n", "e", "s">>
ComingHome == <<"C", "o", "m", "i", "n", "g", " ", "H", "o", "m", "e">>
Catalyst == <<"C", "a", "t", "a", "l", "y", "s", "t">>
LiveEP == <<"L", "i", "v", "e", " ", "E", "P">>
Hits == <<"H", "i", "t", "s">>

\* What fetchArtistAlbums returned for the artist: three albums and a live
\* one, with or without a compilation.
MockedReleases ==
  <<ReleaseGroup("rg1", SticksAndStones, TypeAlbum, <<>>),
    ReleaseGroup("rg2", SticksAmpStones, TypeAlbum, <<>>),
    ReleaseGroup("rg3", Catalyst, TypeAlbum, <<>>),
    ReleaseGroup("rg4", LiveEP, TypeAlbum, <<TypeLive>>)>>

SummaryAnswers ==
  {MockedReleases,
   Append(MockedReleases, ReleaseGroup("rg5", Hits, TypeCompilation, <<>>))}

OwnedPath(title) == CreateVirtualAlbumPath(Fo, Fo \o <<"-">> \o title)

\* artists, albums and tracks as a scan leaves them that found one track of
\* each of the two albums of the artist.
OwnedLibrary ==
  LET a1 == UpsertArtist(<<>>, Fo, 1)
      d1 == SyncAlbum([albums |-> <<>>, tracks |-> <<>>], a1.id,
                      [title |-> SticksAndStones,
                       albumPath |-> OwnedPath(SticksAndStones),
                       tracks |-> <<1>>], 1)
      d2 == SyncAlbum(d1, a1.id,
                      [title |-> ComingHome, albumPath |-> OwnedPath(ComingHome),
                       tracks |-> <<4>>], 1)
  IN [artists |-> a1.artists, albums |-> d2.albums, tracks |-> d2.tracks]

\* The server after that scan and a first sync of the artist.
InitSummarized ==
  /\ running = FALSE
  /\ cancelRequested = FALSE
  /\ immediates = <<>>
  /\ pc = "idle"
  /\ scan = NoScan
  /\ now = 1
  /\ fs = [exists |-> TRUE, dirs |-> DirIds, files |-> FileIds, failedReads |-> 0]
  /\ artists = OwnedLibrary.artists
  /\ albums = OwnedLibrary.albums
  /\ tracks = OwnedLibrary.tracks
  /\ fileIndex = <<>>
  /\ scanSkipped = <<>>
  /\ scanState = InitialScanState
  /\ lastStart = [called |-> FALSE, started |-> FALSE, inFlight |-> FALSE,
                  status |-> InitialScanState]
  /\ lastCancel = [called |-> FALSE, result |-> FALSE, inFlight |-> FALSE,
                   scanNo |-> 0]
  /\ scansStarted = 0
  /\ fsChanges = 0
  /\ InitClient
  /\ InitNorm
  /\ InitSummary
  /\ InitWalk
  /\ syncs = <<>>
  /\ upstream = <<>>
  /\ upstreamRejected = FALSE
  /\ expectedArtists = <<[artistId |-> 1, updatedAt |-> 1]>>
  /\ \E tx \in {SyncTransaction({}, 0, 1, releases, 1) :
                   releases \in SummaryAnswers} :
       /\ expectedAlbums = tx.rows
       /\ expectedAlbumSeq = tx.seq
  /\ syncNow = 2

\* The artist of the library, and an id no artist has.
SummaryArtistIdOptions == {1, Len(OwnedLibrary.artists) + 1}

\* The expected albums a request names: Catalyst, the compilation, and an
\* id no expected album has.
ExpectedAlbumIdOptions == {3, 5, 9}

\* The expected album the user maps to an album of the library: Catalyst.
OverrideOptions == {3}

\* PUT /api/library/albums/:id/owned, among the requests of the summary.
OwnedCall(albumId, owned) ==
  /\ SetOwned(albumId, owned)
  /\ call' = [NoRequest EXCEPT !.op = "owned",
                               !.status = IF albums[albumId].deleted THEN 404 ELSE 200]
  /\ UNCHANGED <<ignored, overrides, settings, wishlist>>

NextSummary ==
  \/ \E a \in SummaryArtistIdOptions, e \in ExpectedAlbumIdOptions :
       IgnoreCall(a, e) /\ UNCHANGED outsideSummary
  \/ \E a \in SummaryArtistIdOptions, e \in ExpectedAlbumIdOptions :
       UnignoreCall(a, e) /\ UNCHANGED outsideSummary
  \/ \E a \in SummaryArtistIdOptions, includeLive, includeCompilations \in BOOLEAN :
       SettingsCall(a, includeLive, includeCompilations) /\ UNCHANGED outsideSummary
  \/ \E a \in SummaryArtistIdOptions : SummaryCall(a) /\ UNCHANGED outsideSummary
  \/ \E e \in OverrideOptions, o \in DOMAIN albums :
       AddOverride(e, o) /\ UNCHANGED outsideSummary
  \/ \E albumId \in DOMAIN albums, owned \in BOOLEAN :
       OwnedCall(albumId, owned) /\ UNCHANGED outsideLibrary

SpecSummary == InitSummarized /\ [][NextSummary]_vars

\* The walker alone: calls of collectArtistTracks with either setting of
\* recursive, the depths a request may ask for, and any one fault.
NextWalk ==
  \/ \E recursive \in BOOLEAN, maxDepth \in 1 .. MaxWalkDepth, fault \in WalkFaults :
       WalkCall(recursive, maxDepth, fault) /\ UNCHANGED outsideWalk
  \/ WalkDirectory /\ UNCHANGED outsideWalk
  \/ WalkReturn /\ UNCHANGED outsideWalk

SpecWalk == Init /\ [][NextWalk]_vars

(***************************************************************************)
(* Properties of the Scanner.                                              *)
(***************************************************************************)
\* The runScan invocations that are scheduled or under way.
ScansInFlight == Len(immediates) + (IF pc = "idle" THEN 0 ELSE 1)

\* C1: at most one scan is in flight at any time, and a startScan issued
\* while a scan is in flight (from an accepted startScan until the end of
\* its runScan) returned started:false.
C1_SingleFlight ==
  /\ ScansInFlight <= 1
  /\ lastStart.inFlight => ~lastStart.started

\* A startScan was issued, and rejected, while a scan was in flight.
C1_Witness ==
  /\ lastStart.called
  /\ lastStart.inFlight
  /\ ~lastStart.started
  /\ ScansInFlight = 1

\* C6: requestCancel returns true exactly when a scan is in flight, and
\* outside a scan it leaves no cancellation behind: the flag is set only
\* while a scan is in flight, so a scan started later does not find it.
C6_CancelOnlyInFlight ==
  /\ lastCancel.result = lastCancel.inFlight
  /\ cancelRequested => InFlight
  /\ cancelRequested => lastCancel.called /\ lastCancel.result

\* requestCancel was called with no scan in flight and returned false, and a
\* scan accepted afterwards is running uncancelled.
C6_Witness ==
  /\ lastCancel.called
  /\ ~lastCancel.result
  /\ ~lastCancel.inFlight
  /\ pc = "track"
  /\ ~cancelRequested

\* The rows of a table a step turns from deleted = 0 to deleted = 1.
SoftDeleted(before, after) ==
  {k \in (DOMAIN before) \cap (DOMAIN after) : ~before[k].deleted /\ after[k].deleted}

NoSoftDelete ==
  /\ SoftDeleted(tracks, tracks') = {}
  /\ SoftDeleted(albums, albums') = {}
  /\ SoftDeleted(artists, artists') = {}

\* The rows a full-library sweep is meant to have removed from view.
StaleLive(tbl, startedAt) ==
  {k \in DOMAIN tbl : tbl[k].lastSeen < startedAt /\ ~tbl[k].deleted}

\* A step of runScan that ends the scan through its final transaction.
ScanCompletes == pc = "final" /\ pc' = "idle"

\* A step that ends runScan, by the final transaction or by the catch block.
ScanEnds == pc # "idle" /\ pc' = "idle"

\* The step that begins runScan.
ScanBegins == pc = "idle" /\ pc' # "idle"

\* C2: a full-library scan that was cancelled before its final transaction
\* soft-deletes nothing: none of its steps turns a track, album or artist
\* row from deleted = 0 to deleted = 1.
C2_CancelledScanDoesNotSweep ==
  [][(pc # "idle" /\ scan.scanArtistId = 0 /\ cancelRequested) => NoSoftDelete]_vars

\* C3: when a full-library scan completes, no track, album or artist row is
\* left with lastSeen earlier than the scan's startedAt and deleted = 0.
C3_NoStaleLiveRowAfterFullScan ==
  [][(ScanCompletes /\ scan.scanArtistId = 0) =>
       /\ scanState'.startedAt = scan.seenAt
       /\ StaleLive(tracks', scanState'.startedAt) = {}
       /\ StaleLive(albums', scanState'.startedAt) = {}
       /\ StaleLive(artists', scanState'.startedAt) = {}]_vars

\* A full-library scan has completed, and its sweep has soft-deleted a track,
\* an album and an artist that it did not see.
C3_Witness ==
  /\ pc = "idle"
  /\ scanState.status = "idle"
  /\ \E p \in DOMAIN tracks :
       tracks[p].deleted /\ tracks[p].lastSeen < scanState.startedAt
  /\ \E a \in DOMAIN albums :
       albums[a].deleted /\ albums[a].lastSeen < scanState.startedAt
  /\ \E i \in DOMAIN artists :
       artists[i].deleted /\ artists[i].lastSeen < scanState.startedAt

CancelAcknowledged ==
  lastCancel.called /\ lastCancel.result /\ lastCancel.scanNo = scansStarted

\* C5: a scan during which requestCancel returned true, and which raises no
\* error, ends with the persisted status 'cancelled', and its final counters
\* are the ones it had reached: those of its local variables, which are
\* also the ones its last progress update had persisted.
C5_CancelledScanEndsCancelled ==
  [][(ScanCompletes /\ CancelAcknowledged) =>
       /\ scanState'.status = "cancelled"
       /\ scanState'.scannedFiles = scan.scannedFiles
       /\ scanState'.scannedAlbums = scan.scannedAlbums
       /\ scanState'.scannedArtists = Cardinality(scan.artistsSeen)
       /\ scanState'.skippedFiles = scan.skippedFiles
       /\ scanState'.scannedFiles = scanState.scannedFiles
       /\ scanState'.scannedAlbums = scanState.scannedAlbums
       /\ scanState'.scannedArtists = scanState.scannedArtists
       /\ scanState'.skippedFiles = scanState.skippedFiles]_vars

\* A scan during which requestCancel returned true has ended as cancelled.
C5_Witness ==
  /\ pc = "idle"
  /\ immediates = <<>>
  /\ CancelAcknowledged
  /\ scanState.status = "cancelled"

TerminalStatus == {"idle", "cancelled", "error"}

\* A step of the rebuild handler that clears the library.
RebuildClears ==
  /\ pc = "idle" /\ pc' = "idle"
  /\ scanState' = InitialScanState
  /\ tracks' = <<>>
  /\ albums' = <<>>

\* C7 as stated: the persisted status changes only by a scan beginning
\* (to 'running') or by that scan ending (from 'running' to idle, cancelled
\* or error); every scan writes 'running' when it begins and one terminal
\* status when it ends.
C7_StatusFollowsScanLifecycle ==
  [][/\ scanState'.status # scanState.status => ScanBegins \/ ScanEnds
     /\ ScanBegins => scanState'.status = "running"
     /\ ScanEnds => /\ scanState.status = "running"
                    /\ scanState'.status \in TerminalStatus]_vars

\* C7 amended: as stated, except that the library rebuild, which runs only
\* while no scan is in flight, resets the status to 'idle' (from idle,
\* cancelled or error) before it starts its scan.
C7_StatusFollowsScanLifecycleOrRebuild ==
  [][/\ scanState'.status # scanState.status =>
          \/ ScanBegins
          \/ ScanEnds
          \/ RebuildClears /\ ~InFlight /\ scanState.status \in TerminalStatus
     /\ RebuildClears /\ scanState' # scanState => ~InFlight
     /\ ScanBegins => scanState'.status = "running"
     /\ ScanEnds => /\ scanState.status = "running"
                    /\ scanState'.status \in TerminalStatus]_vars

\* A rebuild has reset the status left by a cancelled or failed scan and has
\* scheduled its scan.
C7_Witness ==
  /\ pc = "idle"
  /\ immediates # <<>>
  /\ scansStarted = 2
  /\ scanState = InitialScanState
  /\ \E i \in DOMAIN artists : artists[i].deleted

\* C8: while a scan is suspended between two file units (on the await of
\* the track loop), a request handler can run: here requestCancel.
C8_HandlersRunBetweenFileUnits ==
  pc = "await" => ENABLED RequestCancel

\* C9 as stated: at the end of a scan scannedFiles + skippedFiles is the
\* number of candidates, the audio files the walker returned.
C9_CountersSumToCandidates ==
  [][ScanEnds =>
       scanState'.scannedFiles + scanState'.skippedFiles = scan.candidates]_vars

\* C9 amended: at the end of a scan scannedFiles + skippedFiles is the number
\* of candidates the walker returned plus the number of entries the walker
\* itself skipped (a file of another extension, an unreadable directory).
C9_CountersSumToCandidatesAndWalkerSkips ==
  [][ScanEnds =>
       scanState'.scannedFiles + scanState'.skippedFiles
         = scan.candidates + scan.walkerSkips]_vars

\* A scan has ended that admitted tracks, skipped candidates at the tag
\* filters and the dedupe check, and counted an entry the walker skipped.
C9_Witness ==
  /\ pc = "idle"
  /\ scanState.status = "idle"
  /\ scanState.scannedFiles = 2
  /\ scanState.skippedFiles = 4
  /\ scanState.skippedReasons["unsupported extension"] = 1
  /\ scanState.skippedReasons["duplicate"] = 2
  /\ scanState.skippedReasons["missing album tag"] = 1

\* The dedupeKey of a candidate as the claim defines it.
DedupeKeyOf(f) ==
  IF GetStatInodeKey(f) # 0 THEN <<"inode", GetStatInodeKey(f)>>
  ELSE <<"fallback", Entries[f].size, Entries[f].mtime, f>>

Duplicates == {i \in DOMAIN scan.passed : ~scan.passed[i].admitted}

\* C10: within one scan, among the candidates that pass the tag filters and
\* share a dedupeKey exactly one is admitted; at the end of the scan the
\* admitted one is a live track row seen by this scan, and each of the
\* others is recorded as skipped with reason 'duplicate' and counted once in
\* the persisted breakdown.
C10_OneTrackPerDedupeKey ==
  /\ [](\A i \in DOMAIN scan.passed :
          Cardinality({j \in DOMAIN scan.passed :
                         /\ DedupeKeyOf(scan.passed[j].path)
                              = DedupeKeyOf(scan.passed[i].path)
                         /\ scan.passed[j].admitted}) = 1)
  /\ [][ScanCompletes =>
          /\ scanState'.skippedReasons["duplicate"] = Cardinality(Duplicates)
          /\ \A i \in DOMAIN scan.passed :
               LET p == scan.passed[i].path IN
               IF scan.passed[i].admitted
                 THEN /\ p \in DOMAIN tracks'
                      /\ ~tracks'[p].deleted
                      /\ tracks'[p].lastSeen = scan.seenAt
                 ELSE \E k \in DOMAIN scanSkipped' :
                        /\ scanSkipped'[k].reason = "duplicate"
                        /\ scanSkipped'[k].scanStartedAt = scan.seenAt
                        /\ scanSkipped'[k].filePath = p]_vars

\* A scan has met three hard links of one file, two in one artist directory
\* and one in another, admitted the first and skipped the other two.
C10_Witness ==
  /\ pc = "final"
  /\ Cardinality(Duplicates) = 2
  /\ \E i, j, k \in DOMAIN scan.passed :
       /\ scan.passed[i].admitted
       /\ ~scan.passed[j].admitted
       /\ ~scan.passed[k].admitted
       /\ Entries[scan.passed[i].path].dir = Entries[scan.passed[j].path].dir
       /\ Entries[scan.passed[i].path].dir # Entries[scan.passed[k].path].dir
       /\ DedupeKeyOf(scan.passed[i].path) = DedupeKeyOf(scan.passed[j].path)
       /\ DedupeKeyOf(scan.passed[i].path) = DedupeKeyOf(scan.passed[k].path)

\* The files for which no album tag is available: neither flac nor mp3, or
\* no album in the tags of the file.
NoAlbumTagAvailable(f) ==
  \/ Entries[f].ext \notin {"flac", "mp3"}
  \/ Entries[f].content.album = Nil

\* C11: a candidate without an available album tag is never admitted: the
\* track loop skips it with reason 'missing album tag' and adds it to no
\* album group, and no track row exists for it.
C11_NoAlbumTagNeverAdmitted ==
  /\ [](\A f \in FileIds :
          NoAlbumTagAvailable(f) =>
            /\ f \notin DOMAIN tracks
            /\ \A i \in DOMAIN scan.tracksByAlbum :
                 f \notin Range(scan.tracksByAlbum[i].tracks))
  /\ [][(pc = "await" /\ NoAlbumTagAvailable(scan.track)) =>
          /\ scan'.skipped = Append(scan.skipped,
                                    [filePath |-> scan.track,
                                     reason |-> "missing album tag"])
          /\ scan'.tracksByAlbum = scan.tracksByAlbum
          /\ albums' = albums
          /\ tracks' = tracks]_vars

\* The track loop has skipped the ogg file, whose content holds an album,
\* for its missing album tag.
C11_Witness ==
  /\ pc = "track"
  /\ \E i \in DOMAIN scan.skipped :
       /\ scan.skipped[i].reason = "missing album tag"
       /\ scan.skipped[i].filePath = 6
       /\ Entries[6].content.album # Nil

\* The database is the one a full scan of the whole library leaves behind.
PersistedLibraryReached ==
  /\ pc = "idle"
  /\ artists = PersistedLibrary.artists
  /\ albums = PersistedLibrary.albums
  /\ tracks = PersistedLibrary.tracks
  /\ fileIndex = PersistedLibrary.fileIndex
  /\ scanSkipped = PersistedLibrary.scanSkipped
  /\ scanState = PersistedLibrary.scanState

\* A step of a scan: the setImmediate callback or a later step of runScan.
ScanStep == pc # "idle" \/ pc' # "idle"

\* C12: no step of a scan, full or artist-scoped, removes an album row or
\* changes its owned flag: an album the user marked as not owned is still
\* not owned after the scan, also when the scan soft-deletes it or sees it
\* again after it was soft-deleted.
C12_ScanPreservesOwned ==
  [][ScanStep =>
       \A a \in DOMAIN albums :
         /\ a \in DOMAIN albums'
         /\ albums'[a].owned = albums[a].owned]_vars

\* An album the user marked as not owned was soft-deleted, and a later scan
\* has seen its tracks again and is about to revive the row.
C12_Witness ==
  /\ pc = "albums"
  /\ ~cancelRequested
  /\ \E a \in DOMAIN albums :
       /\ ~albums[a].owned
       /\ albums[a].deleted
       /\ \E i \in DOMAIN scan.tracksByAlbum : scan.tracksByAlbum[i].albumPath = a

\* Scan setup fails: the library path does not exist, or the artist of a
\* scoped scan is unknown.
SetupFails ==
  /\ pc = "setup"
  /\ \/ ~fs.exists
     \/ scan.scanArtistId # 0 /\ scan.scanArtistId \notin DOMAIN artists

\* C13: a scan whose setup fails ends there with status 'error' and the
\* error recorded, the running flag is cleared, and neither the start of
\* the scan nor its end modifies an artist, album, track or file_index row.
C13_SetupErrorLeavesLibraryUntouched ==
  /\ [][SetupFails =>
          /\ pc' = "idle"
          /\ scanState'.status = "error"
          /\ scanState'.error
          /\ ~running'
          /\ UNCHANGED <<artists, albums, tracks, fileIndex>>]_vars
  /\ [][ScanBegins => UNCHANGED <<artists, albums, tracks, fileIndex>>]_vars

\* A scoped scan of an unknown artist has failed over a populated library.
C13_Witness ==
  /\ pc = "idle"
  /\ scanState.status = "error"
  /\ scanState.error
  /\ fs.exists
  /\ ~running
  /\ tracks # <<>>

(***************************************************************************)
(* Properties of the metadata client.                                      *)
(***************************************************************************)
Outstanding == {r \in DOMAIN requests : requests[r].state = "fetch"}

\* C14: upstream requests are serialized in FIFO order: at most one HTTP
\* attempt is outstanding, and the first attempt of a request starts only
\* after every request scheduled before it has settled.
C14_StrictlySerialized ==
  /\ Cardinality(Outstanding) <= 1
  /\ \A r \in DOMAIN requests :
       requests[r].firstStart # -1 =>
         \A q \in 1 .. (r - 1) :
           /\ requests[q].settledAt # -1
           /\ requests[q].settledAt <= requests[r].firstStart

\* A request scheduled while the attempt of the request before it was
\* outstanding has its own attempt outstanding, after that request settled.
C14_Witness ==
  /\ Len(requests) = 2
  /\ requests[1].state = "fulfilled"
  /\ requests[2].state = "fetch"
  /\ requests[2].chainedOnPending

\* C15: of two adjacent successful requests the later one starts at least
\* 1000 ms after the earlier one ended.
C15_GapFromEndOfPrevious ==
  \A r \in 2 .. Len(requests) :
    (requests[r - 1].state = "fulfilled" /\ requests[r].state = "fulfilled") =>
      requests[r].firstStart - requests[r - 1].settledAt >= Ticks(MIN_INTERVAL_MS)

\* Request r starts an HTTP attempt in this step.
AttemptStarts(r) ==
  /\ r \in DOMAIN requests
  /\ requests[r].state # "fetch"
  /\ requests'[r].state = "fetch"

\* C16: any two consecutive HTTP attempts, retries included, start at least
\* 1000 ms apart (lastRequestAt is the start of the attempt before).
C16_AttemptsOneSecondApart ==
  [][\A r \in DOMAIN requests :
       (AttemptStarts(r) /\ lastRequestAt # 0) =>
         mbNow' - lastRequestAt >= Ticks(MIN_INTERVAL_MS)]_vars

\* C17: after a 429 or 503 with a finite Retry-After of N seconds and
\* retries left, the next attempt starts at least N * 1000 ms after the
\* response was received; and when that attempt returns 200 the request is
\* fulfilled.
C17_RetryAfterHonoured ==
  [][\A r \in DOMAIN requests :
       /\ (/\ requests[r].state = "backoff"
           /\ requests[r].outcome \in {"429", "503"}
           /\ requests[r].retryAfter > 0
           /\ AttemptStarts(r)) =>
            mbNow' - requests[r].receivedAt
              >= requests[r].retryAfter * Ticks(1000)
       /\ (/\ requests[r].state = "fetch"
           /\ requests[r].attempt > 0
           /\ requests'[r].state # "fetch"
           /\ requests'[r].outcome = "200") =>
            requests'[r].state = "fulfilled"]_vars

\* C18: a request makes at most 3 HTTP attempts, and when the third attempt
\* does not succeed the request fails.
C18_AtMostThreeAttempts ==
  /\ [](\A r \in DOMAIN requests : requests[r].attempts <= 3)
  /\ [][\A r \in DOMAIN requests :
          (/\ requests[r].state = "fetch"
           /\ requests[r].attempts = 3
           /\ requests'[r].state # "fetch"
           /\ requests'[r].outcome # "200") =>
             requests'[r].state = "rejected"]_vars

\* A request has failed after a third attempt that was answered 429.
C18_Witness ==
  \E r \in DOMAIN requests :
    /\ requests[r].attempts = 3
    /\ requests[r].state = "rejected"
    /\ requests[r].outcome = "429"

\* C19: when an attempt fails with a network error or with the request
\* timeout and retries are left, the client retries the request.
C19_NetworkErrorOrTimeoutIsRetried ==
  [][\A r \in DOMAIN requests :
       (/\ requests[r].state = "fetch"
        /\ requests'[r].state # "fetch"
        /\ requests'[r].outcome \in {"fetch failed", "AbortError"}
        /\ requests[r].attempt < MAX_RETRIES) =>
          requests'[r].state = "backoff"]_vars

\* The rows of expected_albums of an expected artist.
ExpectedRowsOf(rows, expectedArtistId) ==
  {r \in rows : r.expectedArtistId = expectedArtistId}

\* C20: when a sync succeeds the rows of its artist in expected_albums are
\* exactly the release-groups it returned, one row each, all with updatedAt
\* equal to the timestamp of that sync; and a sync that fails leaves
\* expected_albums as it was.
C20_SyncReplacesExpectedAlbums ==
  [][\A i \in DOMAIN syncs :
       /\ (syncs[i].state = "fetch" /\ syncs'[i].state = "done") =>
            LET rows == ExpectedRowsOf(expectedAlbums', syncs'[i].expectedArtistId)
                returned == Range(syncs'[i].albums)
            IN /\ {ReleaseGroup(r.mbReleaseGroupId, r.title, r.primaryType,
                                 r.secondaryTypes) : r \in rows} = returned
               /\ Cardinality(rows) = Cardinality(returned)
               /\ \A r \in rows : r.updatedAt = syncs'[i].now
       /\ (syncs[i].state # "failed" /\ syncs'[i].state = "failed") =>
            expectedAlbums' = expectedAlbums]_vars
\* The tables after the first sync of the artist.
PersistedExpectedReached ==
  /\ expectedArtists = PersistedExpected.expectedArtists
  /\ expectedAlbums = PersistedExpected.tx.rows
  /\ expectedAlbumSeq = PersistedExpected.tx.seq
  /\ syncNow = PersistedExpected.syncNow
  /\ Len(syncs) = 1
  /\ upstream = <<>>
  /\ ~upstreamRejected

\* C21: a failure of the metadata client inside syncExpectedForArtist
\* reaches the HTTP caller as status 502, with details in the body.
C21_UpstreamFailureIs502WithDetails ==
  \A i \in DOMAIN syncs :
    syncs[i].failure \in {"upstream", "timeout"} =>
      /\ syncs[i].reply.code = 502
      /\ "details" \in syncs[i].reply.body

\* C26: normalizeTitle is idempotent: applied to a title it returned, it
\* returns that title.
C26_NormalizeTitleIdempotent ==
  norm.pc = "renormalized" => norm.output = norm.input

\* The part before a bare year that keeps the year: it normalizes to
\* empty, live or the.
KeepsBareYear(title) ==
  normalizeTitle(title) \in {<<>>} \cup CONSERVATIVE_BARE_YEAR_EXCLUSIONS

HasNoYearSuffix(title) == stripTrailingYearSuffix(title) = Trim(title)

\* The part before a bare year as stripTrailingYearSuffix tests it:
\* lowercased, punctuation and symbols read as spaces.
BareYearBase(title) ==
  Trim(CollapseSpaces(PunctuationToSpace(LowerCase(Trim(title)))))

NotRefreshed(before, after) ==
  /\ DOMAIN after = DOMAIN before
  /\ \A k \in DOMAIN before :
       /\ after[k].lastSeen = before[k].lastSeen
       /\ before[k].deleted => after[k].deleted

\* The scan is at a checkpoint, or past the loops.
AtCheckpoint == pc \in {"artist", "track", "albums", "final"}

\* C28: once the scan has seen the cancellation flag at a checkpoint (the
\* start of an artist iteration, the start of a track iteration, just before
\* the albums are materialized) it creates or refreshes no further artist,
\* album or track row.
C28_CancelledScanWritesNoRows ==
  [][(AtCheckpoint /\ cancelRequested) =>
       /\ NotRefreshed(artists, artists')
       /\ NotRefreshed(albums, albums')
       /\ NotRefreshed(tracks, tracks')]_vars

\* The scan saw the flag at the head of the artist loop and left it with
\* artist directories to go, none of them upserted.
C28_Witness ==
  /\ pc = "final"
  /\ cancelRequested
  /\ scan.artistDirs # <<>>
  /\ scan.artistsSeen = {}

RECURSIVE TrackLoop(_, _, _, _, _, _)
\* The track loop of runScan over the tracks in the given order: the groups
\* of tracksByAlbum when it ends.
TrackLoop(order, artistName, seenAt, tbl, seenDedupKeys, groups) ==
  IF order = <<>> THEN groups
  ELSE LET built == BuildTrackMetadata(tbl, Head(order), artistName, seenAt, TRUE)
       IN IF AdmissionSkip(built.metadata, artistName, seenDedupKeys) # ""
            THEN TrackLoop(Tail(order), artistName, seenAt, built.fileIndex,
                           seenDedupKeys, groups)
            ELSE TrackLoop(Tail(order), artistName, seenAt, built.fileIndex,
                           seenDedupKeys \cup {ComputeDedupeKey(built.metadata)},
                           AddToGroup(groups, artistName, built.metadata))

\* The albums of the groups: their grouping key, title and virtual path.
AlbumsOf(groups) ==
  {[key |-> g.key, title |-> g.title, albumPath |-> g.albumPath] :
     g \in Range(groups)}

\* The orders in which a walker can return the tracks.
OrdersOf(trks) ==
  {[i \in DOMAIN trks |-> trks[p[i]]] : p \in Permutations(DOMAIN trks)}

\* runScan is at the head of the track loop of an artist, no track taken yet.
AtLoopStart ==
  /\ pc = "track"
  /\ scan.tracksByAlbum = <<>>
  /\ scan.artistTracks = CollectArtistTracks(scan.artistName, TRUE).out

\* C29: for the files and tags under an artist directory, the albums the
\* track loop produces (grouping key, title, virtual path) are the same
\* whatever order the walker returns the files in.
C29_AlbumsIndependentOfWalkOrder ==
  AtLoopStart =>
    \A order \in OrdersOf(scan.artistTracks) :
      AlbumsOf(TrackLoop(order, scan.artistName, scan.seenAt, fileIndex,
                         scan.seenDedupKeys, <<>>))
        = AlbumsOf(TrackLoop(scan.artistTracks, scan.artistName, scan.seenAt,
                             fileIndex, scan.seenDedupKeys, <<>>))

\* The candidate at the head of the track loop has a row in file_index with
\* its mtime and size.
CacheHit(f) ==
  /\ f \in DOMAIN fileIndex
  /\ fileIndex[f].mtime = Entries[f].mtime
  /\ fileIndex[f].size = Entries[f].size

\* What the admission and the grouping make of a metadata record: the skip
\* reason, the dedupe key, the group with its title and virtual path.
Decision(metadata, artistName, seenDedupKeys) ==
  [skip |-> AdmissionSkip(metadata, artistName, seenDedupKeys),
   dedupeKey |-> ComputeDedupeKey(metadata),
   groups |-> AddToGroup(<<>>, artistName, metadata)]

\* C30: on a cache hit buildTrackMetadata returns the tags of the file_index
\* row, and they lead to the admission decision, dedupe key and album group
\* that a read of the tags of the unchanged file leads to.
C30_CacheHitDecidesAsFreshRead ==
  [][(pc = "track" /\ pc' = "await" /\ CacheHit(Head(scan.artistTracks))) =>
       LET f == Head(scan.artistTracks)
           fresh == BuildTrackMetadata(<<>>, f, scan.artistName, scan.seenAt,
                                      TRUE).metadata
       IN /\ scan'.metadata.tagInfo = CachedTagInfo(fileIndex[f])
          /\ Decision(scan'.metadata, scan.artistName, scan.seenDedupKeys)
               = Decision(fresh, scan.artistName, scan.seenDedupKeys)]_vars


(***************************************************************************)
(* Properties of the Discography Service's summary.                        *)
(***************************************************************************)
\* The last request was a summary of an artist that exists; the tables are
\* as the summary read them.
SummaryReturned == call.op = "summary" /\ call.status = 200

\* The expected album matches an owned album by its title: by the
\* normalized title or as a strong alias.
TitleMatch(db, artistId, expected) ==
  HasMatch([db EXCEPT !.overrides = {}], artistId, expected)

\* An override maps the expected album to an existing owned album, a row
\* with deleted = 0 and owned = 1.
OverrideToOwned(db, artistId, expected) ==
  \E o \in db.overrides :
    /\ o.expectedAlbumId = expected.id
    /\ o.ownedAlbumId \in OwnedAlbumsOf(db, artistId)

\* C22: computeSummary counts an expected album as matched through an
\* override only if the override maps it to an existing owned album
\* (deleted = 0 and owned = 1): an expected album that no owned title
\* matches and that the summary counted as matched has such an override.
C22_OverrideCountsOnlyForOwnedAlbum ==
  SummaryReturned =>
    \A e \in ExpectedAlbumsOf(Db, call.artistId) :
      (e.id \in call.summary.matched /\ ~TitleMatch(Db, call.artistId, e)) =>
        OverrideToOwned(Db, call.artistId, e)

\* Matched as the summary is specified: an override to an existing owned
\* album, or a match by title.
Matched(db, artistId, expected) ==
  OverrideToOwned(db, artistId, expected) \/ TitleMatch(db, artistId, expected)

\* A compilation passes only when includeCompilations is set, a release with
\* secondary type live only when includeLive is set.
PassesInclusion(expected, st) ==
  /\ LowerCase(expected.primaryType) = COMPILATION => st.includeCompilations
  /\ (\E i \in DOMAIN expected.secondaryTypes :
        LowerCase(expected.secondaryTypes[i]) = LIVE) => st.includeLive

Ignored(db, artistId, expected) ==
  [artistId |-> artistId, expectedAlbumId |-> expected.id] \in db.ignored

\* C23: an expected album of the artist is in missingAlbums if and only if it
\* is unmatched, not ignored and passes the inclusion filter; missingCount is
\* the length of that list.
C23_MissingIffUnmatchedNotIgnoredIncluded ==
  SummaryReturned =>
    /\ \A e \in ExpectedAlbumsOf(Db, call.artistId) :
         e.id \in call.summary.missingAlbums <=>
           /\ ~Matched(Db, call.artistId, e)
           /\ ~Ignored(Db, call.artistId, e)
           /\ PassesInclusion(e, GetArtistSettings(settings, call.artistId))
    /\ call.summary.missingCount = Cardinality(call.summary.missingAlbums)

\* The artist owns 'Sticks and Stones' and 'Coming Home'; the expected albums
\* are the four mocked releases; includeLive is false; nothing is ignored or
\* overridden.
MockedScenario ==
  LET owned == OwnedAlbumsOf(Db, call.artistId)
      expectedRows == ExpectedAlbumsOf(Db, call.artistId)
  IN /\ SummaryReturned
     /\ Cardinality(owned) = 2
     /\ {albums[a].title : a \in owned} = {SticksAndStones, ComingHome}
     /\ Cardinality(expectedRows) = 4
     /\ {ReleaseGroup(r.mbReleaseGroupId, r.title, r.primaryType, r.secondaryTypes) :
           r \in expectedRows} = Range(MockedReleases)
     /\ ~GetArtistSettings(settings, call.artistId).includeLive
     /\ ignored = {}
     /\ overrides = {}

\* C24: in the mocked scenario computeSummary returns ownedCount 2,
\* expectedCount 4, missingCount 1 (only Catalyst) and completionPct 75.
C24_MockedSummary ==
  MockedScenario =>
    /\ call.summary.ownedCount = 2
    /\ call.summary.expectedCount = 4
    /\ call.summary.missingCount = 1
    /\ call.summary.missingAlbums =
         {r.id : r \in {x \in expectedAlbums : x.title = Catalyst}}
    /\ call.summary.completionPct = 75

\* The step is a call of ignore, or of unignore, that succeeded.
Called(op) == call'.op = op /\ call'.status = 200

\* The tables with another table expected_ignored.
WithIgnored(db, tbl) == [db EXCEPT !.ignored = tbl]

\* The pair the call of this step names.
CalledPair == [artistId |-> call'.artistId, expectedAlbumId |-> call'.expectedAlbumId]

\* Repeating the ignore of this step leaves expected_ignored as the step
\* left it.
IgnoreRepeats ==
  IgnoreExpectedAlbum(WithIgnored(Db, ignored'), call'.artistId,
                      call'.expectedAlbumId).ignored = ignored'

\* Repeating the unignore of this step leaves expected_ignored as the step
\* left it.
UnignoreRepeats ==
  UnignoreExpectedAlbum(WithIgnored(Db, ignored'), call'.artistId,
                        call'.expectedAlbumId).ignored = ignored'

\* An unignore after the ignore of this step gives expected_ignored, and the
\* missingAlbums of the summary, as they were before the ignore.
UnignoreRestores ==
  LET undone == WithIgnored(Db,
                  UnignoreExpectedAlbum(WithIgnored(Db, ignored'), call'.artistId,
                                        call'.expectedAlbumId).ignored)
  IN /\ undone.ignored = ignored
     /\ ComputeSummary(undone, call'.artistId).missingAlbums =
          ComputeSummary(Db, call'.artistId).missingAlbums

\* C25: ignoreExpectedAlbum and unignoreExpectedAlbum are idempotent on the
\* ignored set, and unignore after ignore restores the set, and the
\* missingAlbums of the summary, to what it was before the ignore.
C25_IgnoreUnignore ==
  [][/\ Called("ignore") => IgnoreRepeats /\ UnignoreRestores
     /\ Called("unignore") => UnignoreRepeats]_vars

\* C25 as amended: both calls are idempotent on the ignored set, and unignore
\* after the ignore of a pair that was not ignored before restores the set,
\* and the missingAlbums of the summary, to what it was before the ignore.
C25_IgnoreUnignoreOfNewPair ==
  [][/\ Called("ignore") =>
          /\ IgnoreRepeats
          /\ CalledPair \notin ignored => UnignoreRestores
     /\ Called("unignore") => UnignoreRepeats]_vars

\* An expected album has been ignored while another one was ignored already.
C25_Witness ==
  /\ call.op = "ignore"
  /\ call.status = 200
  /\ [artistId |-> call.artistId, expectedAlbumId |-> call.expectedAlbumId] \in ignored
  /\ Cardinality(ignored) = 2

(***************************************************************************)
(* Properties of the Library Walker.                                       *)
(***************************************************************************)
RECURSIVE DepthOf(_)
\* The depth of a directory below artistPath, which is at depth 0.
DepthOf(dir) ==
  IF dir = ArtistPath THEN 0 ELSE DepthOf(TreeNodes[dir].parent) + 1

RECURSIVE Below(_, _)
\* The entry lies somewhere below the directory.
Below(entry, dir) ==
  /\ entry # ArtistPath
  /\ \/ TreeNodes[entry].parent = dir
     \/ Below(TreeNodes[entry].parent, dir)

WalkReturned == walk.pc = "returned"

\* The walk can get to the entry: nothing is wrong with a directory above
\* it.
ComesAcross(entry) ==
  walk.fault.kind = "none" \/ ~Below(entry, walk.fault.node)

DepthSkipOf(dir) ==
  [filePath |-> dir, reason |-> "depth-exceeded", maxDepth |-> walk.maxDepth]

FilesWithinMaxDepth ==
  \A i \in DOMAIN walk.out :
    DepthOf(TreeNodes[walk.out[i]].parent) <= walk.maxDepth

NonRecursiveStaysAtTop ==
  ~walk.recursive =>
    \A i \in DOMAIN walk.out : TreeNodes[walk.out[i]].parent = ArtistPath

\* C31: collectArtistTracks returns only files whose directory is at depth
\* <= maxDepth, reports each directory at depth maxDepth+1 that a recursive
\* walk comes across as skipped with reason depth-exceeded:<maxDepth>, and
\* with recursive=false returns only files directly in artistPath.
C31_WalkerDepth ==
  WalkReturned =>
    /\ FilesWithinMaxDepth
    /\ walk.recursive =>
         \A dir \in DirNodes :
           (DepthOf(dir) = walk.maxDepth + 1 /\ ComesAcross(dir)) =>
             DepthSkipOf(dir) \in Range(walk.skips)
    /\ NonRecursiveStaysAtTop

\* C31, amended: as above, for each directory at depth maxDepth+1 that is
\* not hidden and on which lstat and stat succeed; a hidden one is reported
\* as hidden-path, one that cannot be stat'ed as unreadable-path or
\* broken-symlink.
C31_WalkerDepthOfVisibleDirectories ==
  WalkReturned =>
    /\ FilesWithinMaxDepth
    /\ walk.recursive =>
         \A dir \in DirNodes :
           (/\ DepthOf(dir) = walk.maxDepth + 1
            /\ ComesAcross(dir)
            /\ \A kind \in {"hidden", "lstat", "broken-symlink"} :
                 ~Faulty(walk, dir, kind)) =>
             DepthSkipOf(dir) \in Range(walk.skips)
    /\ NonRecursiveStaysAtTop

\* A recursive walk with maxDepth 1 of the faultless tree has returned: the
\* files of depths 0 and 1, and the directory at depth 2 skipped.
C31_Witness ==
  /\ WalkReturned
  /\ walk.recursive
  /\ walk.maxDepth = 1
  /\ walk.fault = NoFault
  /\ Range(walk.out) = {2, 5}
  /\ DepthSkipOf(4) \in Range(walk.skips)

(***************************************************************************)
(* Properties of the Scanner: files that cannot be opened.                 *)
(***************************************************************************)
\* This step is a call of buildTrackMetadata in which the open of the file
\* fails.
OpenFails == pc = "track" /\ fs'.failedReads > fs.failedReads

\* C32: an error raised while a candidate file is opened or read for its
\* tags or its hash never aborts the scan: the file is treated as untagged
\* or recorded as a skip, the scan goes on with the next file, and once past
\* its setup a scan never ends with status 'error'.
C32_ReadErrorNeverAbortsScan ==
  [][/\ OpenFails =>
          /\ \/ /\ pc' = "await"
                /\ scan'.track = Head(scan.artistTracks)
                /\ scan'.metadata.tagInfo = NoTags
                /\ scan'.skipped = scan.skipped
             \/ /\ pc' = "track"
                /\ scan'.skipped =
                     Append(scan.skipped, [filePath |-> Head(scan.artistTracks),
                                           reason |-> "parse error"])
          /\ scan'.artistTracks = Tail(scan.artistTracks)
          /\ scanState' = scanState
     /\ (pc \in {"artist", "track", "await", "albums", "final"} /\ pc' = "idle") =>
          scanState'.status \in {"idle", "cancelled"}]_vars

\* A scan in which the hash of a file could not be taken has finished with
\* status idle and the file in its skip ledger.
C32_Witness ==
  /\ pc = "idle"
  /\ fs.failedReads = 1
  /\ scanState.status = "idle"
  /\ \E i \in DOMAIN scanSkipped : scanSkipped[i].reason = "parse error"

(***************************************************************************)
(* Properties of the Scanner: the track count of an album.                 *)
(***************************************************************************)
\* The track rows with deleted = 0 whose albumId is the album.
LiveTracksOf(tbl, albumId) ==
  {p \in DOMAIN tbl : ~tbl[p].deleted /\ tbl[p].albumId = albumId}

\* C33: after any scan that finishes without error, every album row with
\* deleted = 0 has trackCount equal to the number of track rows with
\* deleted = 0 whose albumId is that album.
C33_TrackCountIsLiveTracks ==
  [][(pc = "final" /\ pc' = "idle") =>
       \A a \in DOMAIN albums' :
         ~albums'[a].deleted =>
           albums'[a].trackCount = Cardinality(LiveTracksOf(tracks', a))]_vars

\* Whether a row of a table is live.
Live(tbl, k) == k \in DOMAIN tbl /\ ~tbl[k].deleted

\* The live rows of the artist directories in unread stay live in the step.
UnreadRowsSurvive(unread) ==
  /\ \A a \in DOMAIN artists :
       (artists[a].name \in unread /\ Live(artists, a)) => Live(artists', a)
  /\ \A b \in DOMAIN albums :
       (b.dir \in unread /\ Live(albums, b)) => Live(albums', b)
  /\ \A f \in DOMAIN tracks :
       (Entries[f].dir \in unread /\ f \in fs.files /\ Live(tracks, f))
         => Live(tracks', f)

UnreadRowsKept(unread, seenAt) ==
  /\ \A a \in DOMAIN artists :
       artists[a].name \in unread =>
         /\ a \in DOMAIN artists'
         /\ artists'[a] = [artists[a] EXCEPT
                             !.deleted = @ \/ artists[a].lastSeen < seenAt]
  /\ \A b \in DOMAIN albums :
       b.dir \in unread =>
         /\ b \in DOMAIN albums'
         /\ albums'[b] = [albums[b] EXCEPT
                            !.deleted = @ \/ albums[b].lastSeen < seenAt]
  /\ \A f \in DOMAIN tracks :
       Entries[f].dir \in unread =>
         /\ f \in DOMAIN tracks'
         /\ tracks'[f] = [tracks[f] EXCEPT
                            !.deleted = @ \/ tracks[f].lastSeen < seenAt]

C35_SettlesByOwnAttempts ==
  \A r \in DOMAIN requests :
    Settled(r) => /\ requests[r].attempts >= 1
                  /\ requests[r].outcome # ""

(***************************************************************************)
(* The scanner under the scheduling of the event loop: a setImmediate      *)
(* callback that is queued runs, and a runScan that is suspended on an     *)
(* await or running synchronous code goes on to its next step.             *)
(***************************************************************************)
RunScanStep ==
  /\ \/ RunScanBegin
     \/ ScanSetup
     \/ ScanArtist
     \/ ScanTrack
     \/ ScanAdmit
     \/ ScanAlbums
     \/ ScanFinal
  /\ UNCHANGED outsideScanner

\* The requests of the scan routes, on a library that does not change
\* between the scans.
NextScheduled ==
  \/ \E a \in ArtistIdOptions :
       StartScan(a) /\ UNCHANGED outsideScanner
  \/ RequestCancel /\ UNCHANGED outsideScanner
  \/ RunScanStep

SpecScheduled == Init /\ [][NextScheduled]_vars /\ WF_vars(RunScanStep)

\* No scan is accepted and unfinished: the flags are clear, no callback is
\* queued, runScan is not on the stack, and scan_state is terminal.
ScanEnded ==
  /\ ~running
  /\ ~cancelRequested
  /\ immediates = <<>>
  /\ pc = "idle"
  /\ scanState.status \in TerminalStatus
  /\ ~StartRejected

\* C36: every accepted startScan leads to the end of its scan: a terminal
\* status in scan_state, running and cancelRequested cleared, so that the
\* next startScan is accepted.
C36_AcceptedScanEnds == running ~> ScanEnded

\* A second scan was accepted after the first had ended, and has ended too.
C36_Witness ==
  /\ scansStarted = MaxScans
  /\ lastStart.started
  /\ ScanEnded

\* C37: two overlapping syncs of one artist, the second started before the
\* first has written the row of the artist in expected_artists, both end
\* without an internal error, and the table holds one row for the artist.
C37_OverlappingSyncsComplete ==
  \A i, j \in DOMAIN syncs :
    (/\ i < j
     /\ syncs[i].artistId = syncs[j].artistId
     /\ syncs[j].expectedArtistId = 0 \/ syncs[j].state = "failed"
     /\ syncs[i].state \in {"done", "failed"}
     /\ syncs[j].state \in {"done", "failed"})
      => /\ syncs[i].failure # "internal"
         /\ syncs[j].failure # "internal"
         /\ Cardinality({e \in DOMAIN expectedArtists :
              expectedArtists[e].artistId = syncs[i].artistId}) <= 1

(***************************************************************************)
(* Syncs among the requests that refer to expected albums.                 *)
(***************************************************************************)
\* The expected albums a request names: those of the first sync, the first
\* a later sync adds, and none.
PruneAlbumIdOptions == {0, 2, 3}

\* The titles a wishlist request names.
WishlistTitles == {<<>>, <<"c">>}

NextPrune ==
  \/ \E a \in SyncArtistIdOptions : SyncStart(a) /\ UNCHANGED outsideSync
  \/ \E found \in BOOLEAN : SyncLookupAnswer(found) /\ UNCHANGED outsideSync
  \/ \E releases \in UpstreamAnswers :
       SyncFetchAnswer(releases) /\ UNCHANGED outsideSync
  \/ SyncClock /\ UNCHANGED outsideSync
  \/ \E a \in SyncArtistIdOptions, e \in PruneAlbumIdOptions \ {0} :
       IgnoreCall(a, e) /\ UNCHANGED outsideSummary
  \/ \E e \in PruneAlbumIdOptions, a \in SyncArtistIdOptions, title \in WishlistTitles :
       WishlistCall(e, a, title) /\ UNCHANGED outsideSummary

SpecPrune == InitSynced /\ [][NextPrune]_vars

\* C38: after any sequence of syncs, wishlist additions and ignore
\* operations, every row of wishlist_albums and every ignored pair refers
\* to a row of expected_albums that exists.
C38_NoDanglingReference ==
  /\ \A w \in wishlist : \E r \in expectedAlbums : r.id = w
  /\ \A g \in ignored : \E r \in expectedAlbums : r.id = g.expectedAlbumId

\* C39: whenever startScan returns started: true, the status it returns is
\* that of the scan just started: status running, counters at zero.
C39_StartedSnapshotIsRunning ==
  (lastStart.called /\ lastStart.started) =>
    /\ lastStart.status.status = "running"
    /\ lastStart.status.scannedFiles = 0
    /\ lastStart.status.scannedAlbums = 0
    /\ lastStart.status.scannedArtists = 0
    /\ lastStart.status.skippedFiles = 0

RECURSIVE SumOfCounts(_, _)
\* The sum of the counts of the reasons in S.
SumOfCounts(breakdown, S) ==
  IF S = {} THEN 0
  ELSE LET r == CHOOSE x \in S : TRUE
       IN breakdown[r] + SumOfCounts(breakdown, S \ {r})

\* C40: at the end of every scan that finishes without error, skippedFiles
\* is the sum of the counts of skippedReasonsBreakdown and the number of
\* rows of scan_skipped, and every row carries the startedAt of this scan.
C40_SkippedLedgerAgrees ==
  [][ScanCompletes =>
       /\ scanState'.skippedFiles
            = SumOfCounts(scanState'.skippedReasons, Reasons)
       /\ scanState'.skippedFiles = Len(scanSkipped')
       /\ \A k \in DOMAIN scanSkipped' :
            scanSkipped'[k].scanStartedAt = scanState'.startedAt]_vars

====
